---- MODULE Spec2Model ----
(***************************************************************************)
(* A model of the devotional Bible-reading application:                    *)
(*   - the reading plan and the day arithmetic (constants.ts, in App.tsx), *)
(*   - the diary / mission-plan lists and the mock sync layer,             *)
(*   - the archive of readings and the meditation status,                  *)
(*   - the image-generation retry / fallback chain (geminiService.ts),     *)
(*   - the text functions of the service and fetchContent with its cache.  *)
(* Each part has its own specification (SpecPlan, SpecList, ...)  ; the     *)
(* variables of the other parts stay at their initial value.               *)
(*                                                                         *)
(* Time is measured in hours: one unit is 1000*60*60 ms of Date.getTime(). *)
(* Hour 0 is 2024-07-27T00:00Z.                                            *)
(***************************************************************************)
EXTENDS Integers, Sequences, FiniteSets, TLC

VARIABLES
    \* ---- App / constants / BibleReading.currentDay
    tz,             \* the browser's time zone (a record of Zones)
    today,          \* `today = new Date()` of the last App render (UTC hour)
    language,       \* useLanguage().language
    dailyReading,   \* getDailyReading(today, language) of the last render
    currentDay      \* BibleReading's currentDay memo

planVars == <<tz, today, language, dailyReading, currentDay>>

VARIABLES
    \* ---- FaithDiary / EvangelismMission and the sync service
    activeTab,      \* App's activeTab: the component that is mounted
    savedEntries,   \* the mounted component's savedEntries state
    currentEntry,   \* the draft: currentEntry (diary) / currentPlan (mission)
    isSyncing,      \* the mounted component's isSyncing state
    fetch,          \* the get... request of the current mount, while in flight
    clock,          \* Date.now(), advanced by every save
    written,        \* history: key -> the entries a save has stored under it
    lastOp          \* history: the handler that ran last and how it ended

listVars == <<activeTab, savedEntries, currentEntry, isSyncing,
              fetch, clock, written, lastOp>>

VARIABLES
    \* ---- window.localStorage of the origin, shared by every open window:
    \* a function from the keys that are present to the stored values
    localStorage

VARIABLES
    \* ---- BibleReading: meditation status and archive, per browser window
    readingDay,         \* the window's currentDay
    content,            \* the window's passage and meditationGuide
    meditationStatus,   \* the window's meditationStatus state
    archivedReadings,   \* the window's archivedReadings state
    isSaving,           \* the window's isSaving state
    initialData,        \* fetchInitialData of the window, while in flight
    completing,         \* handleCompleteReading of the window, while in flight
    archiveClock,       \* new Date() of the archive snapshots
    lastArchived,       \* history: day -> the data of the last completed save
    readOp              \* history: the handler of BibleReading that ran last

readVars == <<readingDay, content, meditationStatus, archivedReadings, isSaving,
              initialData, completing, archiveClock, lastArchived, readOp>>

VARIABLES
    \* ---- geminiService.generateContextImage: one call and its requests
    apiKey,         \* import.meta.env.VITE_GEMINI_API_KEY (<< >> when not set)
    imgPc,          \* where the call is: idle, image, delay, text, returned, rejected
    params,         \* {initialPrompt, fallbackContext, language} of the call
    imgStage,       \* the generateImage call site: 1 detailed, 2 context, 3 static
    prompt,         \* generateImage's parameter p
    attempt,        \* generateImage's attempt counter
    imageUrl,       \* generateContextImage's imageUrl (<< >> is null)
    result,         \* the value the returned promise resolved to
    trace,          \* history: requests, responses, timers, ends of stages
    console         \* history: the delays announced by console.warn

imgVars == <<apiKey, imgPc, params, imgStage, prompt, attempt, imageUrl, result,
             trace, console>>

VARIABLES
    \* ---- geminiService: one call of a text function of the service
    svcPc,          \* idle, request (awaiting the API), resolved, rejected
    svcFn,          \* the function called
    svcLanguage,    \* its language argument
    svcRequests,    \* history: the API requests the call has issued
    svcResponse,    \* history: the answer to the request
    svcValue        \* the value the returned promise resolved to

svcVars == <<svcPc, svcFn, svcLanguage, svcRequests, svcResponse, svcValue>>

VARIABLES
    \* ---- BibleReading.fetchContent: the content of the day and its cache
    readingCache,       \* the `reading-cache-${date}-${language}` items of
                        \* localStorage: a function from the keys present
    appPassage,         \* App's passage state, set by onPassageLoaded
    shown,              \* passage, meditationGuide, passageContext and
                        \* passageIntention, which are always set together
    contextImageUrl,    \* the contextImageUrl state
    isLoading,          \* the isLoading state
    isImageLoading,     \* the isImageLoading state
    readingError,       \* the error state
    textFetches,        \* generateComprehensiveReadingContent calls in flight
    imageFetches,       \* generateContextImage calls in flight
    fetchCount,         \* the number of runs of fetchContent of this page
    shownBy,            \* history: the run of fetchContent that set `shown`
    lastFetch,          \* history: the last run of fetchContent
    contentOp           \* history: the step of fetchContent that ran last

contentVars == <<readingCache, appPassage, shown, contextImageUrl, isLoading,
                 isImageLoading, readingError, textFetches, imageFetches,
                 fetchCount, shownBy, lastFetch, contentOp>>

VARIABLES
    \* ---- EvangelismMission.fetchTips: the tips of the day and their cache
    tipsCache,      \* the `evangelism-tips-${today}-${language}` items of
                    \* localStorage: a function from the keys present
    tips,           \* the tips state
    tipsLoading,    \* EvangelismMission's isLoading state
    tipsCall,       \* the run of fetchTips that awaits its request, if any
    tipsCalls,      \* history: the number of runs of fetchTips
    tipsRequests,   \* history: the number of generation requests issued
    tipsOp          \* history: the step of fetchTips that ran last

tipsVars == <<tipsCache, tips, tipsLoading, tipsCall, tipsCalls, tipsRequests,
              tipsOp>>

VARIABLES
    \* ---- BibleChat, while it is mounted
    chatDeps,       \* the passage and language the effect depends on
    isOnline,       \* the isOnline state
    chat,           \* the chat state: 0 for null, else the session's number
    history,        \* the history state: the messages on the screen
    userInput,      \* the userInput state
    chatLoading,    \* BibleChat's isLoading state
    streams,        \* the calls of handleSendMessage that await their stream
    sent,           \* history: the number of messages accepted
    chatOp          \* history: the handler of BibleChat that ran last

chatVars == <<chatDeps, isOnline, chat, history, userInput, chatLoading,
              streams, sent, chatOp>>

VARIABLES
    \* ---- the components that guard on connectivity
    navigatorOnLine,    \* navigator.onLine: the most recent connectivity event
    generator,          \* MusicRecommendation, PrayerTraining or SermonOutline:
                        \* its isOnline, isLoading, error and result states
    keywordsView,       \* StoryKeywords: isOnline, isLoading, error, keywords
    netRequests,        \* history: the generation requests started
    netOp               \* history: the handler that ran last

netVars == <<navigatorOnLine, generator, keywordsView, netRequests, netOp>>

\* the variables of the parts after fetchContent
laterVars == <<tipsVars, chatVars, netVars>>

\* the variables of the parts after the image chain
moreVars == <<svcVars, contentVars, laterVars>>

vars == <<planVars, listVars, localStorage, readVars, imgVars, moreVars>>

-----------------------------------------------------------------------------
(* Bounds of the model *)

\* the first render happens this many hours before hour 0 (before the
\* schedule starts in every zone)
HoursBefore == 60
FirstHour == 0 - HoursBefore
\* last instant a render may happen at (102 days after hour 0)
LastHour == 2450
\* two consecutive renders are at most this many hours apart
MaxRenderGap == 12
\* number of handleSave calls that store an entry
MaxSaves == 2
\* number of handleCompleteReading calls that reach saveArchivedReading
MaxArchives == 2

\* fetchContent: the language is switched while the page has run
\* fetchContent less than this many times
MaxFetches == 2

\* fetchContent: the hours between two page loads, and the last load
MaxLoadGap == 12
ContentFirstHour == 0
ContentLastHour == 30

\* fetchTips: the number of runs
MaxTipsCalls == 3

\* BibleChat: the messages accepted, the chunks of a stream, the sessions
MaxMessages == 3
MaxChunks == 1
MaxSessions == 2

\* the guarded components: the generation requests started
MaxNetRequests == 3

\* BibleChat: the passages BibleReading may pass while the chat is mounted
ChatPassages == {1, 2}

-----------------------------------------------------------------------------
(* constants.ts: the reading plan *)

Languages == {"ko", "en"}

\* The Korean book names are written in romanised form.
PAULINE_EPISTLES ==
    << [book |-> [ko |-> "Galladiaseo",          en |-> "Galatians"],       chapters |-> 6],
       [book |-> [ko |-> "Desallonigajeonseo",   en |-> "1 Thessalonians"], chapters |-> 5],
       [book |-> [ko |-> "Desallonigahuseo",     en |-> "2 Thessalonians"], chapters |-> 3],
       [book |-> [ko |-> "Gorindojeonseo",       en |-> "1 Corinthians"],   chapters |-> 16],
       [book |-> [ko |-> "Gorindohuseo",         en |-> "2 Corinthians"],   chapters |-> 13],
       [book |-> [ko |-> "Romaseo",              en |-> "Romans"],          chapters |-> 16],
       [book |-> [ko |-> "Gollosaeseo",          en |-> "Colossians"],      chapters |-> 4],
       [book |-> [ko |-> "Billemonseo",          en |-> "Philemon"],        chapters |-> 1],
       [book |-> [ko |-> "Ebesoseo",             en |-> "Ephesians"],       chapters |-> 6],
       [book |-> [ko |-> "Billiboseo",           en |-> "Philippians"],     chapters |-> 4],
       [book |-> [ko |-> "Dimodejeonseo",        en |-> "1 Timothy"],       chapters |-> 6],
       [book |-> [ko |-> "Didoseo",              en |-> "Titus"],           chapters |-> 3],
       [book |-> [ko |-> "Dimodehuseo",          en |-> "2 Timothy"],       chapters |-> 4] >>

\* the chapters 1..chapters of one epistle, as plan items
RECURSIVE ChaptersOf(_, _)
ChaptersOf(epistle, i) ==
    IF i > epistle.chapters THEN << >>
    ELSE <<[book |-> epistle.book, chapter |-> i]>> \o ChaptersOf(epistle, i + 1)

RECURSIVE PlanFrom(_)
PlanFrom(k) ==
    IF k > Len(PAULINE_EPISTLES) THEN << >>
    ELSE ChaptersOf(PAULINE_EPISTLES[k], 1) \o PlanFrom(k + 1)

generateReadingPlan == PlanFrom(1)

\* readingPlan is 0-indexed in the source: readingPlan[i] is PlanAt(i)
readingPlan == generateReadingPlan
totalChapters == Len(readingPlan)
PlanAt(i) == readingPlan[i + 1]

-----------------------------------------------------------------------------
(* The Date object: local time of the browser's zone *)

\* A zone has the UTC offset `base` until the UTC hour `at`, and
\* base + delta from then on (one daylight-saving transition, at 02:00
\* local time).  Asia/Seoul has none; America/New_York leaves DST on
\* 2024-11-03; Australia/Sydney enters DST on 2024-10-06.
Zones ==
    { [name |-> "Asia/Seoul",       base |-> 9,  at |-> 0,    delta |-> 0],
      [name |-> "America/New_York", base |-> -4, at |-> 2382, delta |-> -1],
      [name |-> "Australia/Sydney", base |-> 10, at |-> 1696, delta |-> 1] }

Offset(z, u) == IF u >= z.at THEN z.base + z.delta ELSE z.base

\* local wall-clock hour count of the instant u
LocalHours(z, u) == u + Offset(z, u)

\* the instant whose wall clock shows the local hour count l (the earlier
\* one when the wall clock shows l twice)
FromLocal(z, l) ==
    IF LocalHours(z, l - z.base) = l THEN l - z.base
    ELSE IF LocalHours(z, l - z.base - z.delta) = l THEN l - z.base - z.delta
    ELSE l - z.base

\* Date.prototype.setHours(0,0,0,0)
setHours0(z, u) == FromLocal(z, 24 * (LocalHours(z, u) \div 24))

\* new Date(2024, 6, 27); setHours(0,0,0,0): local midnight of 27 July 2024
SCHEDULE_START_DATE(z) == setHours0(z, FromLocal(z, 0))

oneDay == 24

-----------------------------------------------------------------------------
(* constants.ts: getDailyReading and getFullSchedule *)

\* the day number without the normalisation to local midnight
dayOfScheduleOf_noSetHours(z, date) ==
    LET d == (date - SCHEDULE_START_DATE(z)) \div oneDay
    IN  IF d < 0 THEN 0 ELSE d

dayOfScheduleOf(z, date) ==
    LET currentDate == setHours0(z, date)
        d == (currentDate - SCHEDULE_START_DATE(z)) \div oneDay
    IN  IF d < 0 THEN 0 ELSE d

\* the reading chosen by cycling over the schedule days instead of the chapters
getDailyReading_cycleDays(z, date, lang) ==
    LET dayOfSchedule == dayOfScheduleOf(z, date)
        startIndex == ((dayOfSchedule % ((totalChapters + 1) \div 2)) * 2) % totalChapters
        firstChapterItem == PlanAt(startIndex)
        secondChapterItem == PlanAt((startIndex + 1) % totalChapters)
    IN  << [book |-> firstChapterItem.book[lang], chapter |-> firstChapterItem.chapter],
           [book |-> secondChapterItem.book[lang], chapter |-> secondChapterItem.chapter] >>

getDailyReading(z, date, lang) ==
    LET dayOfSchedule == dayOfScheduleOf(z, date)
        startIndex == (dayOfSchedule * 2) % totalChapters
        firstChapterItem == PlanAt(startIndex)
        secondChapterItem == PlanAt((startIndex + 1) % totalChapters)
    IN  << [book |-> firstChapterItem.book[lang], chapter |-> firstChapterItem.chapter],
           [book |-> secondChapterItem.book[lang], chapter |-> secondChapterItem.chapter] >>

\* Math.ceil(readingPlan.length / 2)
totalDays == (Len(readingPlan) + 1) \div 2

\* The reading text of a schedule entry is kept in structured form:
\* "B c" is <<[B, c]>> (kind single), "B c1-c2" a range within one book,
\* "B1 c1 & B2 c2" a pair of two books.
ScheduleEntry(dayIndex, lang) ==
    LET startIndex == dayIndex * 2
        firstChapter == PlanAt(startIndex)
        hasSecond == startIndex + 1 < Len(readingPlan)
        firstBookName == firstChapter.book[lang]
    IN  IF ~hasSecond
        THEN [day |-> dayIndex + 1,
              reading |-> [kind |-> "single", book |-> firstBookName,
                           from |-> firstChapter.chapter]]
        ELSE LET secondChapter == PlanAt(startIndex + 1)
                 secondBookName == secondChapter.book[lang]
             IN  IF firstBookName = secondBookName
                 THEN [day |-> dayIndex + 1,
                       reading |-> [kind |-> "range", book |-> firstBookName,
                                    from |-> firstChapter.chapter,
                                    to |-> secondChapter.chapter]]
                 ELSE [day |-> dayIndex + 1,
                       reading |-> [kind |-> "pair", book |-> firstBookName,
                                    from |-> firstChapter.chapter,
                                    book2 |-> secondBookName,
                                    to |-> secondChapter.chapter]]

getFullSchedule(lang) == [k \in 1..totalDays |-> ScheduleEntry(k - 1, lang)]

\* Array.prototype.find / findIndex over readingPlan: the first of the
\* 0-based indices `hits` of the items that satisfy the predicate, or -1
findIndex(hits) ==
    IF hits = {} THEN -1
    ELSE CHOOSE i \in hits : \A j \in hits : i <= j

\* BibleReading.tsx: the currentDay memo
currentDayOf(reading, lang) ==
    LET indices == 0..(Len(readingPlan) - 1)
        found == findIndex({i \in indices :
                     /\ PlanAt(i).book[lang] = reading[1].book
                     /\ PlanAt(i).chapter = reading[1].chapter})
        en == IF found = -1 THEN "undefined" ELSE PlanAt(found).book.en
        currentChapterIndex ==
            findIndex({i \in indices :
                /\ PlanAt(i).book.en = en
                /\ PlanAt(i).chapter = reading[1].chapter})
    IN  IF currentChapterIndex # -1 THEN (currentChapterIndex \div 2) + 1 ELSE 1

\* App.readingRef and handleCompleteReading's readingReference:
\* `${reading[0].book} ${reading[0].chapter}-${reading[1].chapter}`, the
\* chapters reading[0].chapter to reading[1].chapter of reading[0].book
readingReference(reading) ==
    [book |-> reading[1].book, chapter1 |-> reading[1].chapter,
     chapter2 |-> reading[2].chapter]

\* fetchContent: the arguments of generateComprehensiveReadingContent, whose
\* prompt asks for `${book} ${chapter1}-${chapter2}`
comprehensiveReadingRequest(reading, lang) ==
    [book |-> reading[1].book, chapter1 |-> reading[1].chapter,
     chapter2 |-> reading[2].chapter, language |-> lang]

-----------------------------------------------------------------------------
(* App: renders *)

PlanInit ==
    /\ tz \in Zones
    /\ language \in Languages
    /\ today = FirstHour
    /\ dailyReading = getDailyReading(tz, today, language)
    /\ currentDay = currentDayOf(dailyReading, language)

\* A render of App at the instant u: `today = new Date()`, the daily reading
\* is recomputed and passed to BibleReading, which recomputes currentDay.
Render(u, lang) ==
    /\ today' = u
    /\ language' = lang
    /\ dailyReading' = getDailyReading(tz, u, lang)
    /\ currentDay' = currentDayOf(dailyReading', lang)
    /\ UNCHANGED <<tz, listVars, localStorage, readVars, imgVars, moreVars>>

\* a state change (tab switch, passage loaded, ...) re-renders App later on
Rerender ==
    \E u \in today..(today + MaxRenderGap) :
        /\ u <= LastHour
        /\ Render(u, language)

\* LanguageButton.onClick: setLanguage(lang) and the render it causes
SetLanguage ==
    \E lang \in Languages, u \in today..(today + 1) :
        /\ lang # language
        /\ u <= LastHour
        /\ Render(u, lang)

PlanNext == Rerender \/ SetLanguage

\* the plan part at rest, for the specifications of the other parts
PlanIdle ==
    /\ tz = [name |-> "Asia/Seoul", base |-> 9, at |-> 0, delta |-> 0]
    /\ language = "ko"
    /\ today = 0
    /\ dailyReading = getDailyReading(tz, today, language)
    /\ currentDay = currentDayOf(dailyReading, language)

-----------------------------------------------------------------------------
(* FaithDiary.tsx, EvangelismMission.tsx and syncService.ts: the saved lists *)

\* Text is a sequence of characters; the user types one of these values.
Texts == { << >>, <<" ">>, <<"a">> }

\* String.prototype.trim
RECURSIVE trimStart(_)
trimStart(s) ==
    IF s # << >> /\ Head(s) = " " THEN trimStart(Tail(s)) ELSE s

RECURSIVE trimEnd(_)
trimEnd(s) ==
    IF s # << >> /\ s[Len(s)] = " " THEN trimEnd(SubSeq(s, 1, Len(s) - 1)) ELSE s

\* trim that strips nothing
trim_keepsBlanks(s) == s

trim(s) == trimEnd(trimStart(s))

\* the keys of one calendar day D: `diary-D-saved`, `diary-D-current`
\* (FaithDiary) and `mission-D` (EvangelismMission)
ListKey(tab) == IF tab = "diary" THEN "diary-D-saved" ELSE "mission-D"
DraftKey == "diary-D-current"
StorageKeys == {"diary-D-saved", "diary-D-current", "mission-D"}

\* localStorage.setItem(key, JSON.stringify(value)) when it does not throw
setItem(store, key, value) ==
    [k \in DOMAIN store \cup {key} |-> IF k = key THEN value ELSE store[k]]

\* the initial value of the draft
EmptyDraft(tab) ==
    IF tab = "diary"
    THEN [repentance |-> << >>, resolve |-> << >>, dream |-> << >>]
    ELSE << >>

\* the guard of handleSave: nothing to save
isBlank(tab, draft) ==
    IF tab = "diary"
    THEN /\ trim(draft.repentance) = << >>
         /\ trim(draft.resolve) = << >>
         /\ trim(draft.dream) = << >>
    ELSE trim(draft) = << >>

\* [newEntry, ...savedEntries] with the entries appended instead
newEntries_appended(newEntry, entries) == entries \o <<newEntry>>

\* [newEntry, ...savedEntries]
newEntries(newEntry, entries) == <<newEntry>> \o entries

\* getDiaryEntries / getMissionPlans: `data ? JSON.parse(data) : []`, read
\* when the request starts.  Stored values are kept unserialised: the JSON
\* round trip of lists of records of strings and numbers returns them as
\* they were.
getEntries(key) ==
    IF key \in DOMAIN localStorage THEN localStorage[key] ELSE << >>

\* useLocalStorage's initial state: `item ? JSON.parse(item) : initialValue`
storedDraft ==
    IF DraftKey \in DOMAIN localStorage THEN localStorage[DraftKey]
    ELSE EmptyDraft("diary")

NoFetch == [pending |-> FALSE, entries |-> << >>]

ListHistory == <<clock, written>>

\* NavButton.onClick: setActiveTab(tab).  The component of the other tab is
\* unmounted (the completion of its request no longer changes any state), the
\* component of the new tab is mounted with its initial state and its effect
\* starts the request for the saved list.
SetActiveTab(tab) ==
    /\ tab # activeTab
    /\ activeTab' = tab
    /\ IF tab = "reading"
       THEN /\ savedEntries' = << >>
            /\ currentEntry' = << >>
            /\ isSyncing' = FALSE
            /\ fetch' = NoFetch
       ELSE /\ savedEntries' = << >>
            /\ currentEntry' = IF tab = "diary" THEN storedDraft ELSE EmptyDraft(tab)
            /\ isSyncing' = TRUE
            /\ fetch' = [pending |-> TRUE, entries |-> getEntries(ListKey(tab))]
    /\ lastOp' = [name |-> "setActiveTab"]
    /\ UNCHANGED <<localStorage, ListHistory, planVars, readVars, imgVars, moreVars>>

\* fetchEntries / fetchPlans after the await: the request resolves
\* MOCK_LATENCY after it was started, with the list read at its start
FetchResolved ==
    /\ fetch.pending
    /\ savedEntries' = fetch.entries
    /\ isSyncing' = FALSE
    /\ fetch' = NoFetch
    /\ lastOp' = [name |-> "fetchResolved"]
    /\ UNCHANGED <<activeTab, localStorage, currentEntry, ListHistory, planVars, readVars, imgVars, moreVars>>

\* The drafts the user types: one of the three fields of the diary is
\* filled in at a time.
TypedDraft(draft) ==
    Cardinality({f \in {"repentance", "resolve", "dream"} : draft[f] # << >>}) <= 1

\* FaithDiary.handleChange(field, value): setCurrentEntry through
\* useLocalStorage, which also stores the draft; `stored` is whether
\* localStorage.setItem succeeded (it throws when the quota is exceeded)
HandleChange(field, value, stored) ==
    /\ activeTab = "diary"
    /\ currentEntry' = [currentEntry EXCEPT ![field] = value]
    /\ currentEntry' # currentEntry
    /\ TypedDraft(currentEntry')
    /\ localStorage' = IF stored
                       THEN setItem(localStorage, DraftKey, currentEntry')
                       ELSE localStorage
    /\ lastOp' = [name |-> "handleChange"]
    /\ UNCHANGED <<activeTab, savedEntries, isSyncing, fetch, ListHistory, planVars,
                   readVars, imgVars, moreVars>>

\* EvangelismMission: textarea onChange, setCurrentPlan(value)
SetCurrentPlan(value) ==
    /\ activeTab = "mission"
    /\ currentEntry' = value
    /\ currentEntry' # currentEntry
    /\ lastOp' = [name |-> "setCurrentPlan"]
    /\ UNCHANGED <<activeTab, localStorage, savedEntries, isSyncing, fetch,
                   ListHistory, planVars, readVars, imgVars, moreVars>>

\* the catch block of handleSave with the optimistic list left in place
revertOnError_keepsNew(entries, list) == list

\* the catch block of handleSave: setSavedEntries(savedEntries), the list of
\* the render in which the button was clicked
revertOnError(entries, list) == entries

\* handleSave of FaithDiary and EvangelismMission.  draftStored: the setItem
\* of the diary draft succeeded; listStored: the setItem of save...Entries
\* succeeded, otherwise the promise rejects and the catch reverts the list.
HandleSave(draftStored, listStored) ==
    /\ activeTab \in {"diary", "mission"}
    /\ IF isBlank(activeTab, currentEntry)
       THEN /\ lastOp' = [name |-> "handleSave", saved |-> FALSE, stored |-> FALSE]
            /\ UNCHANGED <<localStorage, savedEntries, currentEntry, ListHistory>>
       ELSE LET newEntry == [id |-> clock, timestamp |-> clock, content |-> currentEntry]
                list == newEntries(newEntry, savedEntries)
                key == ListKey(activeTab)
                withDraft ==
                    IF activeTab = "diary" /\ draftStored
                    THEN setItem(localStorage, DraftKey, EmptyDraft("diary"))
                    ELSE localStorage
            IN  /\ clock < MaxSaves
                /\ clock' = clock + 1
                /\ currentEntry' = EmptyDraft(activeTab)
                /\ IF listStored
                   THEN /\ savedEntries' = list
                        /\ localStorage' = setItem(withDraft, key, list)
                        /\ written' = [written EXCEPT ![key] = @ \cup {newEntry}]
                   ELSE /\ savedEntries' = revertOnError(savedEntries, list)
                        /\ localStorage' = withDraft
                        /\ written' = written
                /\ lastOp' = [name |-> "handleSave", saved |-> TRUE, stored |-> listStored]
    /\ UNCHANGED <<activeTab, isSyncing, fetch, planVars, readVars, imgVars, moreVars>>

\* no key is stored yet
StorageInit == localStorage = [k \in {} |-> << >>]

ListIdle ==
    /\ activeTab = "reading"
    /\ savedEntries = << >>
    /\ currentEntry = << >>
    /\ isSyncing = FALSE
    /\ fetch = NoFetch
    /\ clock = 0
    /\ written = [k \in StorageKeys |-> {}]
    /\ lastOp = [name |-> "init"]

ListInit == ListIdle /\ StorageInit

ListNext ==
    \/ \E tab \in {"reading", "diary", "mission"} : SetActiveTab(tab)
    \/ FetchResolved
    \/ \E field \in {"repentance", "resolve", "dream"}, value \in Texts, stored \in BOOLEAN :
          HandleChange(field, value, stored)
    \/ \E value \in Texts : SetCurrentPlan(value)
    \/ \E draftStored \in BOOLEAN, listStored \in BOOLEAN :
          HandleSave(draftStored, listStored)
-----------------------------------------------------------------------------
(* BibleReading.tsx and syncService.ts: meditation status and archive *)

\* the browser windows that show the application; they share localStorage
Windows == {1, 2}

\* MeditationStatus = 'good' | 'ok' | 'bad'
MeditationStatus == {"good", "ok", "bad"}

\* the days of the schedule whose status buttons the user clicks
StatusDays == {1, 2}

\* an object without keys: {}
EmptyRecord == [k \in {} |-> 0]

\* the object spread {...obj, [key]: value}
spread(obj, key, value) ==
    [k \in DOMAIN obj \cup {key} |-> IF k = key THEN value ELSE obj[k]]

\* delete obj[key]
delete(obj, key) == [k \in DOMAIN obj \ {key} |-> obj[k]]

\* obj[key] === value
holds(obj, key, value) == key \in DOMAIN obj /\ obj[key] = value

\* getMeditationStatus / getArchivedReadings: `data ? JSON.parse(data) : {}`
getRecord(key) ==
    IF key \in DOMAIN localStorage THEN localStorage[key] ELSE EmptyRecord

\* handleStatusChange, first half, with the day's entry set in either case
newStatusOf_neverDeletes(status, day, value) == spread(status, day, value)

\* handleStatusChange, first half: the toggled copy of the record
newStatusOf(status, day, value) ==
    IF holds(status, day, value)
    THEN delete(status, day)
    ELSE spread(status, day, value)

NoInitialData == [pending |-> FALSE, status |-> EmptyRecord, archives |-> EmptyRecord]

Idle == [pc |-> "idle"]

\* the states of the passage and the guide a window can show: not loaded,
\* loaded, loaded with an empty guide
Contents ==
    { [passage |-> "", meditationGuide |-> ""],
      [passage |-> "passage", meditationGuide |-> "guide"],
      [passage |-> "passage", meditationGuide |-> ""] }

\* mount of BibleReading in window w: initial state, and the effect starts
\* fetchInitialData, whose two requests read localStorage at once
Mounted(w) ==
    /\ meditationStatus' = [meditationStatus EXCEPT ![w] = EmptyRecord]
    /\ archivedReadings' = [archivedReadings EXCEPT ![w] = EmptyRecord]
    /\ isSaving' = [isSaving EXCEPT ![w] = FALSE]
    /\ initialData' = [initialData EXCEPT ![w] =
           [pending |-> TRUE,
            status |-> getRecord("meditation-status"),
            archives |-> getRecord("archived-readings")]]
    /\ completing' = [completing EXCEPT ![w] = Idle]

\* the user reloads the page of window w: the requests in flight are dropped
\* and the component is mounted again
Reload(w) ==
    /\ Mounted(w)
    /\ readOp' = [name |-> "reload", w |-> w]
    /\ UNCHANGED <<readingDay, content, archiveClock, lastArchived, localStorage,
                   planVars, listVars, imgVars, moreVars>>

\* fetchInitialData after the await: both requests have resolved
InitialDataResolved(w) ==
    /\ initialData[w].pending
    /\ meditationStatus' = [meditationStatus EXCEPT ![w] = initialData[w].status]
    /\ archivedReadings' = [archivedReadings EXCEPT ![w] = initialData[w].archives]
    /\ initialData' = [initialData EXCEPT ![w] = NoInitialData]
    /\ readOp' = [name |-> "initialData", w |-> w]
    /\ UNCHANGED <<readingDay, content, isSaving, completing, archiveClock,
                   lastArchived, localStorage, planVars, listVars, imgVars, moreVars>>

\* handleStatusChange(day, value) called from a status button of window w;
\* stored: localStorage.setItem in saveMeditationStatus did not throw
HandleStatusChange(w, day, value, stored) ==
    LET newStatus == newStatusOf(meditationStatus[w], day, value)
    IN  /\ meditationStatus' = [meditationStatus EXCEPT ![w] = newStatus]
        /\ localStorage' = IF stored
                           THEN setItem(localStorage, "meditation-status", newStatus)
                           ELSE localStorage
        /\ readOp' = [name |-> "handleStatusChange", w |-> w, day |-> day,
                      status |-> value, passed |-> newStatus]
        /\ UNCHANGED <<readingDay, content, archivedReadings, isSaving, initialData,
                       completing, archiveClock, lastArchived, planVars, listVars, imgVars, moreVars>>

\* handleCompleteReading up to the await inside saveArchivedReading: the
\* button is shown and enabled, the snapshot is built and getArchivedReadings
\* reads the stored archive
CompleteReadingStart(w) ==
    /\ content[w].passage # ""
    /\ ~isSaving[w]
    /\ readingDay[w] \notin DOMAIN archivedReadings[w]
    /\ IF content[w].meditationGuide = ""
       THEN /\ readOp' = [name |-> "handleCompleteReading", w |-> w, started |-> FALSE]
            /\ UNCHANGED <<isSaving, completing, archiveClock>>
       ELSE /\ archiveClock < MaxArchives
            /\ archiveClock' = archiveClock + 1
            /\ isSaving' = [isSaving EXCEPT ![w] = TRUE]
            /\ completing' = [completing EXCEPT ![w] =
                   [pc |-> "reading",
                    day |-> readingDay[w],
                    data |-> [day |-> readingDay[w],
                              dateSaved |-> archiveClock,
                              passage |-> content[w].passage,
                              meditationGuide |-> content[w].meditationGuide],
                    allReadings |-> getRecord("archived-readings"),
                    status |-> meditationStatus[w]]]
            /\ readOp' = [name |-> "handleCompleteReading", w |-> w, started |-> TRUE]
    /\ UNCHANGED <<readingDay, content, meditationStatus, archivedReadings,
                   initialData, lastArchived, localStorage, planVars, listVars, imgVars, moreVars>>

\* saveArchivedReading after `await getArchivedReadings()`: the read map with
\* the day's entry replaced is stored.  When setItem throws the promise
\* rejects, handleCompleteReading logs the error and arms the timer.
ArchiveStored(w, stored) ==
    /\ completing[w].pc = "reading"
    /\ LET c == completing[w]
           updatedReadings == spread(c.allReadings, c.day, c.data)
       IN  IF stored
           THEN /\ localStorage' = setItem(localStorage, "archived-readings", updatedReadings)
                /\ lastArchived' = spread(lastArchived, c.day, c.data)
                /\ completing' = [completing EXCEPT ![w].pc = "stored"]
           ELSE /\ completing' = [completing EXCEPT ![w] = [pc |-> "timer"]]
                /\ UNCHANGED <<localStorage, lastArchived>>
    /\ readOp' = [name |-> "saveArchivedReading", w |-> w, stored |-> stored]
    /\ UNCHANGED <<readingDay, content, meditationStatus, archivedReadings, isSaving,
                   initialData, archiveClock, planVars, listVars, imgVars, moreVars>>

\* handleCompleteReading after `await saveArchivedReading`: the archive in
\* memory gets the entry and the day is marked 'good' through the
\* handleStatusChange of the render in which the button was clicked
CompleteReadingResumed(w, stored) ==
    /\ completing[w].pc = "stored"
    /\ LET c == completing[w]
           newStatus == newStatusOf(c.status, c.day, "good")
       IN  /\ archivedReadings' = [archivedReadings EXCEPT ![w] = spread(@, c.day, c.data)]
           /\ readOp' = [name |-> "completeReadingResumed", w |-> w,
                         called |-> ~holds(c.status, c.day, "good"),
                         day |-> c.day, status |-> "good", passed |-> newStatus]
           /\ IF ~holds(c.status, c.day, "good")
              THEN /\ meditationStatus' = [meditationStatus EXCEPT ![w] = newStatus]
                   /\ localStorage' =
                         IF stored
                         THEN setItem(localStorage, "meditation-status", newStatus)
                         ELSE localStorage
              ELSE UNCHANGED <<meditationStatus, localStorage>>
    /\ completing' = [completing EXCEPT ![w] = [pc |-> "timer"]]
    /\ UNCHANGED <<readingDay, content, isSaving, initialData, archiveClock,
                   lastArchived, planVars, listVars, imgVars, moreVars>>

\* setTimeout(() => setIsSaving(false), 2000)
SavingTimer(w) ==
    /\ completing[w].pc = "timer"
    /\ isSaving' = [isSaving EXCEPT ![w] = FALSE]
    /\ completing' = [completing EXCEPT ![w] = Idle]
    /\ readOp' = [name |-> "savingTimer", w |-> w]
    /\ UNCHANGED <<readingDay, content, meditationStatus, archivedReadings,
                   initialData, archiveClock, lastArchived, localStorage, planVars,
                   listVars, imgVars, moreVars>>

\* every window has just mounted BibleReading with nothing stored; the
\* windows that stay closed in a specification never take a step
ReadIdle ==
    /\ readingDay = [w \in Windows |-> w]
    /\ content = [w \in Windows |-> [passage |-> "passage", meditationGuide |-> "guide"]]
    /\ meditationStatus = [w \in Windows |-> EmptyRecord]
    /\ archivedReadings = [w \in Windows |-> EmptyRecord]
    /\ isSaving = [w \in Windows |-> FALSE]
    /\ initialData = [w \in Windows |->
           [pending |-> TRUE, status |-> EmptyRecord, archives |-> EmptyRecord]]
    /\ completing = [w \in Windows |-> Idle]
    /\ archiveClock = 0
    /\ lastArchived = EmptyRecord
    /\ readOp = [name |-> "init"]

\* two windows, one left open on the reading of day 1 and one on day 2
ArchiveInit ==
    /\ StorageInit
    /\ readingDay = [w \in Windows |-> w]
    /\ content \in [Windows -> Contents]
    /\ meditationStatus = [w \in Windows |-> EmptyRecord]
    /\ archivedReadings = [w \in Windows |-> EmptyRecord]
    /\ isSaving = [w \in Windows |-> FALSE]
    /\ initialData = [w \in Windows |->
           [pending |-> TRUE, status |-> EmptyRecord, archives |-> EmptyRecord]]
    /\ completing = [w \in Windows |-> Idle]
    /\ archiveClock = 0
    /\ lastArchived = EmptyRecord
    /\ readOp = [name |-> "init"]

ArchiveNext ==
    \E w \in Windows :
        \/ Reload(w)
        \/ InitialDataResolved(w)
        \/ CompleteReadingStart(w)
        \/ \E stored \in BOOLEAN : ArchiveStored(w, stored)
        \/ \E stored \in BOOLEAN : CompleteReadingResumed(w, stored)
        \/ SavingTimer(w)

\* one window, in which the user clicks the status buttons of the schedule
\* and completes the reading of the day
StatusInit == StorageInit /\ ReadIdle

StatusNext ==
    \/ InitialDataResolved(1)
    \/ \E day \in StatusDays, value \in MeditationStatus, stored \in BOOLEAN :
          HandleStatusChange(1, day, value, stored)
    \/ CompleteReadingStart(1)
    \/ \E stored \in BOOLEAN : ArchiveStored(1, stored)
    \/ \E stored \in BOOLEAN : CompleteReadingResumed(1, stored)
    \/ SavingTimer(1)

\* one window with reloads of the page, in which every write to localStorage
\* succeeds
ReadingNext ==
    \/ Reload(1)
    \/ InitialDataResolved(1)
    \/ \E day \in StatusDays, value \in MeditationStatus :
          HandleStatusChange(1, day, value, TRUE)
    \/ CompleteReadingStart(1)
    \/ ArchiveStored(1, TRUE)
    \/ CompleteReadingResumed(1, TRUE)
    \/ SavingTimer(1)

-----------------------------------------------------------------------------
(* geminiService.ts: generateContextImage and its generateImage *)

\* the constant set one too high
MAX_RETRIES_oneMore == 3 + 1

\* const MAX_RETRIES = 3
MAX_RETRIES == 3

\* null, and the falsy empty string
Null == << >>

\* `!value` of a string or null
falsy(value) == value = Null

\* the values of VITE_GEMINI_API_KEY: not set, set
ApiKeys == { << >>, <<"AIzaSy">> }

\* the arguments of a call: prompts are sequences of pieces of text
InitialPrompts == { <<"a lamp on a stand">> }
FallbackContexts == { <<"the intention of the passage">> }

\* what the API client throws: a plain object, whose fields JSON.stringify
\* prints, or an Error instance, whose message is not enumerable
Errors ==
    [class : {"Object", "Error"},
     message : { <<"500 ", "Rpc failed due to xhr error", ", error code: 6">>,
                 <<"API key not valid">> }]

\* JSON.stringify(error)
JSONstringify(error) ==
    IF error.class = "Error"
    THEN <<"{}">>
    ELSE <<"{\"message\":\"">> \o error.message \o <<"\"}">>

\* text.includes(searchString), for a search string that is one piece
includes(text, searchString) == \E i \in 1..Len(text) : text[i] = searchString

\* the test of the catch block with every error taken for a transient one
isTransient_always(errorMessage) == TRUE

\* errorMessage.includes("Rpc failed due to xhr error")
isTransient(errorMessage) == includes(errorMessage, "Rpc failed due to xhr error")

\* the answers to an image request: a response, with or without a block
\* reason and with or without a part that has inlineData, or an exception
ImageResponses ==
    [type : {"response"}, blockReason : {"", "SAFETY"},
     inlineData : {Null, <<"iVBOR">>, <<"R0lGO">>}]
    \cup [type : {"throws"}, error : Errors]

\* the answers to the prompt-generation request: response.text is undefined
\* or a string, or an exception
TextResponses ==
    [type : {"response"}, hasText : {FALSE}, text : {Null}]
    \cup [type : {"response"}, hasText : {TRUE}, text : Texts]
    \cup [type : {"throws"}, error : Errors]

\* `data:image/png;base64,${imagePart.inlineData.data}`
dataUri(inlineData) == <<"data:image/png;base64,">> \o inlineData

firstAttemptPrompt(p) ==
    IF p.language = "en"
    THEN <<"detailedPromptPrefix_en">> \o p.initialPrompt
    ELSE <<"detailedPromptPrefix_ko">> \o p.initialPrompt

fallbackPromptGenerator(p) ==
    IF p.language = "en"
    THEN <<"fallbackPromptGenerator_en">> \o p.fallbackContext
    ELSE <<"fallbackPromptGenerator_ko">> \o p.fallbackContext

finalPrompt(p, newPrompt) ==
    IF p.language = "en"
    THEN <<"A symbolic oil painting of: ">> \o newPrompt
    ELSE <<"Sangjingjeogin yuhwa: ">> \o newPrompt

\* getPrompts(language, '', 0, 0).imageFallback
staticFallbackPrompt(p) ==
    IF p.language = "en" THEN <<"imageFallback_en">> ELSE <<"imageFallback_ko">>

NoParams == [initialPrompt |-> Null, fallbackContext |-> Null, language |-> "ko"]

\* the state of the call as one record, and the assignment of such a record
ImageState ==
    [pc |-> imgPc, params |-> params, stage |-> imgStage, p |-> prompt,
     attempt |-> attempt, imageUrl |-> imageUrl, result |-> result,
     trace |-> trace, console |-> console]

Become(st) ==
    /\ imgPc' = st.pc
    /\ params' = st.params
    /\ imgStage' = st.stage
    /\ prompt' = st.p
    /\ attempt' = st.attempt
    /\ imageUrl' = st.imageUrl
    /\ result' = st.result
    /\ trace' = st.trace
    /\ console' = st.console

logged(st, event) == [st EXCEPT !.trace = Append(@, event)]

RECURSIVE generateImageReturned(_, _)

\* generateImage: `while (attempt < MAX_RETRIES)` up to the await of the
\* request, and the `return null` after the loop
whileLoop(st) ==
    IF st.attempt < MAX_RETRIES
    THEN [logged(st, [kind |-> "request", stage |-> st.stage,
                      model |-> "gemini-2.5-flash-image", prompt |-> st.p])
          EXCEPT !.pc = "image"]
    ELSE generateImageReturned(st, Null)

\* generateImage(p), called at the call site of stage
generateImage(st, stage, p) ==
    whileLoop([st EXCEPT !.stage = stage, !.p = p, !.attempt = 0])

\* generateContextImage: `return imageUrl`
returnImageUrl(st) == [st EXCEPT !.pc = "returned", !.result = st.imageUrl]

\* generateContextImage, step 3, with the static fallback tried in any case
staticFallback_always(st) == generateImage(st, 3, staticFallbackPrompt(st.params))

\* generateContextImage, step 3: the static fallback
staticFallback(st) ==
    IF falsy(st.imageUrl)
    THEN generateImage(st, 3, staticFallbackPrompt(st.params))
    ELSE returnImageUrl(st)

\* generateContextImage, end of step 2
contextFallbackEnded(st) ==
    staticFallback(logged(st, [kind |-> "stageEnd", stage |-> 2,
                               imageUrl |-> st.imageUrl]))

\* generateContextImage, step 2 up to the await of the prompt-generation
\* request: the context-aware fallback
contextFallback(st) ==
    IF falsy(st.imageUrl)
    THEN [logged(st, [kind |-> "request", stage |-> 2,
                      model |-> "gemini-2.5-flash",
                      prompt |-> fallbackPromptGenerator(st.params)])
          EXCEPT !.pc = "text", !.stage = 2]
    ELSE staticFallback(st)

\* generateContextImage after `await generateImage(...)` of a stage
generateImageReturned(st, url) ==
    LET assigned == [st EXCEPT !.imageUrl = url]
        ended == logged(assigned, [kind |-> "stageEnd", stage |-> st.stage,
                                   imageUrl |-> url])
    IN  CASE st.stage = 1 -> contextFallback(ended)
          [] st.stage = 2 -> contextFallbackEnded(assigned)
          [] st.stage = 3 -> returnImageUrl(ended)

\* generateImage: the catch block
catch(st, error) ==
    LET count == st.attempt + 1
        failed == [st EXCEPT !.attempt = count]
        warned == [failed EXCEPT !.console = Append(@, count * 1000)]
    IN  IF isTransient(JSONstringify(error))
        THEN IF count >= MAX_RETRIES
             THEN generateImageReturned(warned, Null)
             ELSE [logged(warned, [kind |-> "timer", stage |-> st.stage,
                                   ms |-> count * 1000])
                   EXCEPT !.pc = "delay"]
        ELSE generateImageReturned(failed, Null)

\* generateImage: the try block after the await
try(st, response) ==
    IF response.blockReason # ""
    THEN generateImageReturned(st, Null)
    ELSE IF response.inlineData # Null
         THEN generateImageReturned(st, dataUri(response.inlineData))
         ELSE generateImageReturned(st, Null)

\* a call of generateContextImage: getAiClient throws without an API key,
\* otherwise step 1 runs up to its first request
GenerateContextImage(initialPrompt, fallbackContext, lang) ==
    /\ imgPc = "idle"
    /\ LET called == [ImageState EXCEPT !.params =
                         [initialPrompt |-> initialPrompt,
                          fallbackContext |-> fallbackContext,
                          language |-> lang]]
       IN  IF falsy(apiKey)
           THEN Become([called EXCEPT !.pc = "rejected"])
           ELSE Become(generateImage(called, 1, firstAttemptPrompt(called.params)))
    /\ UNCHANGED <<apiKey, planVars, listVars, localStorage, readVars, moreVars>>

\* the image request in flight is answered
ImageResponse(response) ==
    /\ imgPc = "image"
    /\ LET st == logged(ImageState, [kind |-> "response", stage |-> imgStage,
                                     response |-> response])
       IN  IF response.type = "throws"
           THEN Become(catch(st, response.error))
           ELSE Become(try(st, response))
    /\ UNCHANGED <<apiKey, planVars, listVars, localStorage, readVars, moreVars>>

\* setTimeout(resolve, attempt * 1000) fires: the loop goes round
DelayElapsed ==
    /\ imgPc = "delay"
    /\ Become(whileLoop(ImageState))
    /\ UNCHANGED <<apiKey, planVars, listVars, localStorage, readVars, moreVars>>

\* the prompt-generation request in flight is answered
TextResponse(response) ==
    /\ imgPc = "text"
    /\ LET st == logged(ImageState, [kind |-> "response", stage |-> 2,
                                     response |-> response])
           newPrompt == IF response.hasText THEN trim(response.text) ELSE Null
       IN  IF response.type = "throws"
           THEN Become(contextFallbackEnded(st))
           ELSE IF ~falsy(newPrompt)
                THEN Become(generateImage(st, 2, finalPrompt(st.params, newPrompt)))
                ELSE Become(contextFallbackEnded(st))
    /\ UNCHANGED <<apiKey, planVars, listVars, localStorage, readVars, moreVars>>

\* no call of generateContextImage yet
ImageIdle ==
    /\ apiKey = <<"AIzaSy">>
    /\ imgPc = "idle"
    /\ params = NoParams
    /\ imgStage = 0
    /\ prompt = Null
    /\ attempt = 0
    /\ imageUrl = Null
    /\ result = Null
    /\ trace = << >>
    /\ console = << >>

ImageInit ==
    /\ apiKey \in ApiKeys
    /\ imgPc = "idle"
    /\ params = NoParams
    /\ imgStage = 0
    /\ prompt = Null
    /\ attempt = 0
    /\ imageUrl = Null
    /\ result = Null
    /\ trace = << >>
    /\ console = << >>

ImageNext ==
    \/ \E initialPrompt \in InitialPrompts, fallbackContext \in FallbackContexts,
          lang \in Languages :
          GenerateContextImage(initialPrompt, fallbackContext, lang)
    \/ \E response \in ImageResponses : ImageResponse(response)
    \/ DelayElapsed
    \/ \E response \in TextResponses : TextResponse(response)

-----------------------------------------------------------------------------
(* geminiService.ts: the text functions *)

ServiceFunctions ==
    {"generateEvangelismTips", "recommendMusic", "generatePrayerGuide",
     "generateSermonOutline", "generateStoryKeywords", "explainPassageSelection"}

\* the functions that parse response.text as JSON
JsonFunctions == {"recommendMusic", "generateStoryKeywords"}

\* the values a call resolves to
StringValue(text) == [kind |-> "string", text |-> text]
Undefined == [kind |-> "undefined", text |-> Null]
NullValue == [kind |-> "null", text |-> Null]
ListValue(items) == [kind |-> "list", text |-> items]
ObjectValue(text) == [kind |-> "object", text |-> text]

\* response.text: blank, JSON with and without songs, not JSON
ResponseTexts ==
    { Null, <<" ">>, <<"{\"songs\":[\"song\"]}">>, <<"{}">>, <<"plain text">> }

\* the answers to the request: a response, whose text may be undefined, or
\* an exception
ServiceResponses ==
    [type : {"response"}, hasText : {TRUE}, text : ResponseTexts,
     blockReason : {""}]
    \cup [type : {"response"}, hasText : {FALSE}, text : {Null},
          blockReason : {"", "SAFETY"}]
    \cup [type : {"throws"}, error : Errors]

NoResponse == [type |-> "none"]

\* JSON.parse(text) throws unless the text is JSON
parses(text) == text \in { <<"{\"songs\":[\"song\"]}">>, <<"{}">> }

\* jsonResponse.songs || []
songsOf(text) ==
    IF text = <<"{\"songs\":[\"song\"]}">> THEN <<"song">> ELSE << >>

\* the value of the catch block: the localized error string, [] or null
fallbackOf(fn, lang) ==
    CASE fn = "recommendMusic" -> ListValue(<< >>)
      [] fn = "generateStoryKeywords" -> NullValue
      [] fn = "generateEvangelismTips" -> StringValue(<<"evangelismTipsError", lang>>)
      [] fn = "generatePrayerGuide" -> StringValue(<<"prayerGuideError", lang>>)
      [] fn = "generateSermonOutline" -> StringValue(<<"sermonOutlineError", lang>>)
      [] fn = "explainPassageSelection" -> StringValue(<<"explainSelectionError", lang>>)

\* the try / catch of the function, after the await of the request
resultOf(fn, lang, response) ==
    IF response.type = "throws"
    THEN fallbackOf(fn, lang)
    ELSE IF fn \in JsonFunctions
         THEN IF response.hasText /\ ~falsy(trim(response.text))
              THEN IF ~parses(response.text)
                   THEN fallbackOf(fn, lang)
                   ELSE IF fn = "recommendMusic"
                        THEN ListValue(songsOf(response.text))
                        ELSE ObjectValue(response.text)
              ELSE fallbackOf(fn, lang)
         ELSE IF response.hasText
              THEN StringValue(response.text)
              ELSE Undefined

\* getAiClient(), called in front of the try: it throws without a key and
\* the async function rejects
keyMissing(key) == falsy(key)

\* a call of one of the functions, up to the await of its request
ServiceCall(fn, lang) ==
    /\ svcPc # "request"
    /\ svcFn' = fn
    /\ svcLanguage' = lang
    /\ svcResponse' = NoResponse
    /\ svcValue' = Undefined
    /\ IF keyMissing(apiKey)
       THEN svcPc' = "rejected" /\ svcRequests' = 0
       ELSE svcPc' = "request" /\ svcRequests' = 1
    /\ UNCHANGED <<planVars, listVars, localStorage, readVars, imgVars,
                   contentVars, laterVars>>

\* the request is answered and the function returns
ServiceResponse(response) ==
    /\ svcPc = "request"
    /\ svcPc' = "resolved"
    /\ svcResponse' = response
    /\ svcValue' = resultOf(svcFn, svcLanguage, response)
    /\ UNCHANGED <<svcFn, svcLanguage, svcRequests, planVars, listVars,
                   localStorage, readVars, imgVars, contentVars, laterVars>>

\* no call of the service yet
ServiceIdle ==
    /\ svcPc = "idle"
    /\ svcFn = "generateEvangelismTips"
    /\ svcLanguage = "ko"
    /\ svcRequests = 0
    /\ svcResponse = NoResponse
    /\ svcValue = Undefined

ServiceNext ==
    \/ \E fn \in ServiceFunctions, lang \in Languages : ServiceCall(fn, lang)
    \/ \E response \in ServiceResponses : ServiceResponse(response)

-----------------------------------------------------------------------------
(* BibleReading.tsx: fetchContent, the content of the day and its cache *)

\* `new Date().toISOString().split('T')[0]`: the UTC date, counted in days
\* from 2024-07-27
toISODate(u) == u \div 24

\* what a render of BibleReading closes fetchContent over: its reading prop,
\* the language (and the t of that language) and storageKeyDate
closureOf(zone, u, lang) ==
    [reading |-> getDailyReading(zone, u, lang), language |-> lang,
     storageKeyDate |-> toISODate(u)]

\* `reading-cache-${storageKeyDate}-${language}`
cacheKey(closure) ==
    [date |-> closure.storageKeyDate, language |-> closure.language]

\* the key of the cache write with the language read when the fetch
\* completes instead of the one fetchContent was created with
writeKey_current(fetched, lang) ==
    [date |-> fetched.closure.storageKeyDate, language |-> lang]

\* the cacheKey constant of the run of fetchContent that awaited the fetch
writeKey(fetched, lang) == cacheKey(fetched.closure)

NoRequest == [book |-> "", chapter1 |-> 0, chapter2 |-> 0, language |-> ""]

\* the initial '' of passage, meditationGuide, passageContext, passageIntention
NoData == [request |-> NoRequest, variant |-> 0, imagePrompt |-> FALSE]

\* the texts the model may generate for one request
Variants == {1}

\* what generateComprehensiveReadingContent resolves to for a request:
\* passage, meditationGuide, context and intention written for the request,
\* and an imagePrompt that is empty or not
ComprehensiveData(request) ==
    [request : {request}, variant : Variants, imagePrompt : BOOLEAN]

\* the passage string of the data
passageOf(data) == [request |-> data.request, variant |-> data.variant]

\* contextImageUrl: null
NoImage == [request |-> NoRequest, language |-> ""]

\* what generateComprehensiveReadingContent rejects with: the value the API
\* client threw, or the Error of an empty or blocked response
ContentErrors ==
    { [class |-> "Error",
       message |-> <<"got status: ", "429", " Too Many Requests">>],
      [class |-> "Object",
       message |-> <<"status: ", "RESOURCE_EXHAUSTED">>],
      [class |-> "Object", message |-> <<"Failed to fetch">>],
      [class |-> "Error",
       message |-> <<"API response was empty or did not contain text content.">>] }

\* err instanceof Error ? err.message : JSON.stringify(err)
errorMessageOf(err) ==
    IF err.class = "Error" THEN err.message ELSE JSONstringify(err)

\* the catch block's test with the second search string left out
messageKey_only429(errorMessage) ==
    IF includes(errorMessage, "429") THEN "apiQuotaExceeded" ELSE "contentError"

\* the catch block: the key of the message it shows
messageKey(errorMessage) ==
    IF includes(errorMessage, "429")
       \/ includes(errorMessage, "RESOURCE_EXHAUSTED")
    THEN "apiQuotaExceeded"
    ELSE "contentError"

\* t(key) of a language
t(lang, key) == [key |-> key, language |-> lang]

\* error: null
NoError == [key |-> "", language |-> ""]

NoContentRun ==
    [seq |-> 0, hit |-> FALSE, key |-> [date |-> 0, language |-> ""]]

\* the state of the component and of the cache, as one record
ContentState ==
    [readingCache |-> readingCache, appPassage |-> appPassage,
     shown |-> shown, contextImageUrl |-> contextImageUrl,
     isLoading |-> isLoading, isImageLoading |-> isImageLoading,
     readingError |-> readingError, textFetches |-> textFetches,
     imageFetches |-> imageFetches, fetchCount |-> fetchCount,
     shownBy |-> shownBy, lastFetch |-> lastFetch]

\* the useState initial values of a mounted BibleReading and of App
mounted(c) ==
    [c EXCEPT !.appPassage = passageOf(NoData), !.shown = NoData,
              !.contextImageUrl = NoImage, !.isLoading = TRUE,
              !.isImageLoading = FALSE, !.readingError = NoError,
              !.textFetches = {}, !.imageFetches = {},
              !.fetchCount = 0, !.shownBy = 0]

\* fetchImageAndUpdateState up to its await
fetchImageAndUpdateState(c, data, closure, seq) ==
    [c EXCEPT !.isImageLoading = TRUE,
              !.imageFetches = @ \cup {[seq |-> seq, request |-> data.request,
                                        language |-> closure.language]}]

\* after the text is set: the image is fetched when there is an imagePrompt
imageStep(c, data, closure, seq) ==
    IF data.imagePrompt
    THEN fetchImageAndUpdateState(c, data, closure, seq)
    ELSE [c EXCEPT !.isImageLoading = FALSE]

\* setPassage .. setIsLoading(false) with the data of the cache or of the API
setContent(c, data, seq) ==
    [c EXCEPT !.shown = data, !.shownBy = seq,
              !.appPassage = passageOf(data), !.isLoading = FALSE]

\* one run of fetchContent, up to its return or its await
fetchContent(c, closure) ==
    LET seq == c.fetchCount + 1
        key == cacheKey(closure)
        hit == key \in DOMAIN c.readingCache
        started == [c EXCEPT !.fetchCount = seq,
                             !.lastFetch = [seq |-> seq, hit |-> hit,
                                            key |-> key]]
    IN  IF hit
        THEN LET cachedData == c.readingCache[key]
             IN  imageStep(setContent(started, cachedData, seq),
                           cachedData, closure, seq)
        ELSE [started EXCEPT
                 !.isLoading = TRUE,
                 !.readingError = NoError,
                 !.contextImageUrl = NoImage,
                 !.textFetches = @ \cup {[seq |-> seq, closure |-> closure]}]

\* window.localStorage.setItem(cacheKey, JSON.stringify(dataToCache)), which
\* may throw: the exception is caught and nothing is stored
setCacheItem(c, key, data, stored) ==
    IF stored
    THEN [c EXCEPT !.readingCache =
              [k \in DOMAIN @ \cup {key} |-> IF k = key THEN data ELSE @[k]]]
    ELSE c

\* the continuation of fetchContent after a resolved await
resolved(c, fetched, data, lang, stored) ==
    LET awaited == [c EXCEPT !.textFetches = @ \ {fetched}]
        loaded == imageStep(setContent(awaited, data, fetched.seq),
                            data, fetched.closure, fetched.seq)
    IN  setCacheItem(loaded, writeKey(fetched, lang), data, stored)

\* the catch block of fetchContent
rejected(c, fetched, err) ==
    [c EXCEPT !.textFetches = @ \ {fetched},
              !.readingError = t(fetched.closure.language,
                                 messageKey(errorMessageOf(err))),
              !.isLoading = FALSE,
              !.isImageLoading = FALSE]

\* useEffect(() => { fetchContent(); }, [fetchContent]): a new passage in
\* App's state renders App again, BibleReading gets a new reading array and
\* the effect runs the new fetchContent
RECURSIVE effects(_, _, _)
effects(c, closure, passageBefore) ==
    IF c.appPassage = passageBefore
    THEN c
    ELSE effects(fetchContent(c, closure), closure, c.appPassage)

\* the next state of the component and the cache
Show(c, op) ==
    /\ readingCache' = c.readingCache
    /\ appPassage' = c.appPassage
    /\ shown' = c.shown
    /\ contextImageUrl' = c.contextImageUrl
    /\ isLoading' = c.isLoading
    /\ isImageLoading' = c.isImageLoading
    /\ readingError' = c.readingError
    /\ textFetches' = c.textFetches
    /\ imageFetches' = c.imageFetches
    /\ fetchCount' = c.fetchCount
    /\ shownBy' = c.shownBy
    /\ lastFetch' = c.lastFetch
    /\ contentOp' = op

\* a render of App at the instant u in a language, and the effect it runs
ContentRender(c, u, lang, op) ==
    LET closure == closureOf(tz, u, lang)
    IN  /\ today' = u
        /\ language' = lang
        /\ dailyReading' = closure.reading
        /\ currentDay' = currentDayOf(dailyReading', lang)
        /\ Show(effects(fetchContent(c, closure), closure, c.appPassage), op)
        /\ UNCHANGED <<tz, listVars, localStorage, readVars, imgVars, svcVars, laterVars>>

\* the page is opened again some hours later: the provider starts in Korean
\* and the requests of the page before are gone
PageLoad ==
    \E u \in (today + 1)..(today + MaxLoadGap) :
        /\ u <= ContentLastHour
        /\ ContentRender(mounted(ContentState), u, "ko", [name |-> "pageLoad"])

\* LanguageButton.onClick while the reading tab is shown
SwitchLanguage ==
    \E lang \in Languages :
        /\ fetchCount < MaxFetches
        /\ lang # language
        /\ ContentRender(ContentState, today, lang,
                         [name |-> "switchLanguage"])

\* generateComprehensiveReadingContent resolves, with one of the texts the
\* model may write for the request; then the cache write succeeds or throws
TextResolved ==
    \E fetched \in textFetches, stored \in BOOLEAN :
        \E data \in ComprehensiveData(
               comprehensiveReadingRequest(fetched.closure.reading,
                                           fetched.closure.language)) :
            /\ Show(effects(resolved(ContentState, fetched, data, language,
                                     stored),
                            closureOf(tz, today, language), appPassage),
                    [name |-> "textResolved", seq |-> fetched.seq])
            /\ UNCHANGED <<planVars, listVars, localStorage, readVars,
                           imgVars, svcVars, laterVars>>

\* generateComprehensiveReadingContent rejects
TextRejected ==
    \E fetched \in textFetches, err \in ContentErrors :
        /\ Show(rejected(ContentState, fetched, err),
                [name |-> "textRejected", seq |-> fetched.seq, err |-> err])
        /\ UNCHANGED <<planVars, listVars, localStorage, readVars,
                       imgVars, svcVars, laterVars>>

\* generateContextImage resolves, with an image or with null
ImageResolved ==
    \E fetched \in imageFetches, hasImage \in BOOLEAN :
        /\ Show([ContentState EXCEPT
                    !.imageFetches = @ \ {fetched},
                    !.contextImageUrl =
                        IF hasImage
                        THEN [request |-> fetched.request,
                              language |-> fetched.language]
                        ELSE NoImage,
                    !.isImageLoading = FALSE],
                [name |-> "imageResolved", seq |-> fetched.seq])
        /\ UNCHANGED <<planVars, listVars, localStorage, readVars,
                       imgVars, svcVars, laterVars>>

\* the component before the page is opened, with an empty cache
ContentIdle ==
    /\ readingCache = [k \in {} |-> NoData]
    /\ appPassage = passageOf(NoData)
    /\ shown = NoData
    /\ contextImageUrl = NoImage
    /\ isLoading = TRUE
    /\ isImageLoading = FALSE
    /\ readingError = NoError
    /\ textFetches = {}
    /\ imageFetches = {}
    /\ fetchCount = 0
    /\ shownBy = 0
    /\ lastFetch = NoContentRun
    /\ contentOp = [name |-> "idle"]

\* the page just opened at the instant u in a zone, with nothing cached
Opened(zone, u) ==
    /\ tz = zone
    /\ today = u
    /\ language = "ko"
    /\ dailyReading = getDailyReading(tz, today, language)
    /\ currentDay = currentDayOf(dailyReading, language)
    /\ LET c == fetchContent([readingCache |-> [k \in {} |-> NoData],
                              appPassage |-> passageOf(NoData),
                              shown |-> NoData, contextImageUrl |-> NoImage,
                              isLoading |-> TRUE, isImageLoading |-> FALSE,
                              readingError |-> NoError, textFetches |-> {},
                              imageFetches |-> {}, fetchCount |-> 0,
                              shownBy |-> 0, lastFetch |-> NoContentRun],
                             closureOf(tz, today, language))
       IN  /\ readingCache = c.readingCache
           /\ appPassage = c.appPassage
           /\ shown = c.shown
           /\ contextImageUrl = c.contextImageUrl
           /\ isLoading = c.isLoading
           /\ isImageLoading = c.isImageLoading
           /\ readingError = c.readingError
           /\ textFetches = c.textFetches
           /\ imageFetches = c.imageFetches
           /\ fetchCount = c.fetchCount
           /\ shownBy = c.shownBy
           /\ lastFetch = c.lastFetch
           /\ contentOp = [name |-> "pageLoad"]

\* one page: the language is switched while requests are in flight
ContentInit == Opened(CHOOSE zone \in Zones : zone.base = 9, ContentFirstHour)

ContentNext ==
    SwitchLanguage \/ TextResolved \/ TextRejected \/ ImageResolved

\* the page is opened at several hours of a day and of the next one
CacheInit ==
    \E zone \in Zones, u \in ContentFirstHour..(ContentFirstHour + MaxLoadGap) :
        Opened(zone, u)

CacheNext ==
    PageLoad \/ TextResolved \/ TextRejected \/ ImageResolved

-----------------------------------------------------------------------------
(* SermonOutline.tsx: EvangelismMission.fetchTips and the cache of the tips *)

NoTipsCall == [pending |-> FALSE, key |-> [date |-> 0, language |-> ""]]

\* window.localStorage.setItem(cacheKey, generatedTips): the storage keeps
\* String(value), which is "undefined" for undefined
storedString(value) ==
    IF value.kind = "undefined" THEN StringValue(<<"undefined">>) ELSE value

\* the end of a run of fetchTips: the state, the cache and the history
TipsEnd(value, cache, op) ==
    /\ tips' = value
    /\ tipsCache' = cache
    /\ tipsLoading' = FALSE
    /\ tipsCall' = NoTipsCall
    /\ tipsOp' = op

\* a run of fetchTips (the effect after a mount, a new passage or a new
\* language) up to its return or its await
FetchTips ==
    \E lang \in Languages :
        LET key == [date |-> toISODate(today), language |-> lang]
            cached == key \in DOMAIN tipsCache /\ ~falsy(tipsCache[key].text)
        IN  /\ ~tipsCall.pending
            /\ tipsCalls < MaxTipsCalls
            /\ tipsCalls' = tipsCalls + 1
            /\ IF cached
               THEN /\ TipsEnd(tipsCache[key], tipsCache,
                               [name |-> "cached", key |-> key])
                    /\ UNCHANGED tipsRequests
               ELSE IF keyMissing(apiKey)
               THEN /\ TipsEnd(StringValue(<<"tipsFailed", lang>>), tipsCache,
                               [name |-> "rejected", key |-> key])
                    /\ UNCHANGED tipsRequests
               ELSE /\ tipsLoading' = TRUE
                    /\ tipsCall' = [pending |-> TRUE, key |-> key]
                    /\ tipsRequests' = tipsRequests + 1
                    /\ tipsOp' = [name |-> "request", key |-> key]
                    /\ UNCHANGED <<tips, tipsCache>>
            /\ UNCHANGED <<planVars, listVars, localStorage, readVars, imgVars,
                           svcVars, contentVars, chatVars, netVars>>

\* the request of generateEvangelismTips is answered: fetchTips sets the
\* tips and stores them, and shows tipsFailed when the setItem throws
TipsResponse ==
    \E response \in ServiceResponses, stored \in BOOLEAN :
        LET key == tipsCall.key
            generatedTips ==
                resultOf("generateEvangelismTips", key.language, response)
        IN  /\ tipsCall.pending
            /\ IF stored
               THEN TipsEnd(generatedTips,
                            [k \in DOMAIN tipsCache \cup {key} |->
                                IF k = key THEN storedString(generatedTips)
                                ELSE tipsCache[k]],
                            [name |-> "response", key |-> key,
                             failed |-> response.type = "throws"])
               ELSE TipsEnd(StringValue(<<"tipsFailed", key.language>>),
                            tipsCache,
                            [name |-> "response", key |-> key,
                             failed |-> response.type = "throws"])
            /\ UNCHANGED <<tipsCalls, tipsRequests, planVars, listVars,
                           localStorage, readVars, imgVars, svcVars,
                           contentVars, chatVars, netVars>>

\* EvangelismMission not mounted yet: useState('') and useState(true)
TipsIdle ==
    /\ tipsCache = [k \in {} |-> Undefined]
    /\ tips = StringValue(Null)
    /\ tipsLoading = TRUE
    /\ tipsCall = NoTipsCall
    /\ tipsCalls = 0
    /\ tipsRequests = 0
    /\ tipsOp = [name |-> "idle", key |-> NoTipsCall.key]

TipsNext == FetchTips \/ TipsResponse

-----------------------------------------------------------------------------
(* BibleChat.tsx: the chat session, handleSendMessage and its stream *)

\* the text of a message: what it is and the exchange it was written for
ChatText(kind, msg, lang) == [kind |-> kind, msg |-> msg, language |-> lang]

\* the greeting the effect puts in the history
Greeting(lang) ==
    [role |-> "model", slot |-> 0, text |-> ChatText("greeting", 0, lang)]

\* userMessage and the placeholder { role: 'model', parts: [{ text: '' }] }
\* of the exchange msg; slot is a history variable, the exchange the
\* element was appended for
Exchange(msg) ==
    << [role |-> "user", slot |-> msg, text |-> ChatText("user", msg, "")],
       [role |-> "model", slot |-> msg, text |-> ChatText("empty", 0, "")] >>

\* newHistory[newHistory.length - 1].parts[0].text = text
setLastText(messages, text) ==
    [messages EXCEPT ![Len(messages)].text = text]

\* the frame of the steps of BibleChat
ChatFrame ==
    UNCHANGED <<planVars, listVars, localStorage, readVars, imgVars, svcVars,
                contentVars, tipsVars, netVars>>

\* the chat-initialisation effect after a change of one of its dependencies:
\* without a passage or offline it returns, otherwise it creates a session
\* and resets history, userInput and isLoading
ChatEffect(deps, online, op) ==
    /\ chatDeps' = deps
    /\ isOnline' = online
    /\ chatOp' = op
    /\ IF deps.passage = 0 \/ ~online
       THEN UNCHANGED <<chat, history, userInput, chatLoading>>
       ELSE /\ chat' = chat + 1
            /\ history' = <<Greeting(deps.language)>>
            /\ userInput' = << >>
            /\ chatLoading' = FALSE
    /\ UNCHANGED <<streams, sent>>
    /\ ChatFrame

\* BibleReading shows another passage or the language is switched
ChatPropsChange ==
    \E deps \in [passage : ChatPassages, language : Languages] :
        /\ deps # chatDeps
        /\ deps.passage = chatDeps.passage \/ deps.language = chatDeps.language
        /\ chat < MaxSessions
        /\ ChatEffect(deps, isOnline, [name |-> "propsChange"])

\* the 'online' and 'offline' events of the window
ConnectivityEvent ==
    \E online \in BOOLEAN :
        /\ online # isOnline
        /\ chat < MaxSessions
        /\ ChatEffect(chatDeps, online, [name |-> "connectivity"])

\* handleInputChange
HandleInputChange ==
    \E value \in Texts :
        /\ value # userInput
        /\ userInput' = value
        /\ chatOp' = [name |-> "handleInputChange"]
        /\ UNCHANGED <<chatDeps, isOnline, chat, history, chatLoading,
                       streams, sent>>
        /\ ChatFrame

\* handleSendMessage up to `await chat.sendMessageStream`
HandleSendMessage ==
    /\ sent < MaxMessages
    /\ IF falsy(trim(userInput)) \/ chat = 0 \/ chatLoading
       THEN /\ chatOp' = [name |-> "handleSendMessage", accepted |-> FALSE]
            /\ UNCHANGED <<history, userInput, chatLoading, streams, sent>>
       ELSE /\ sent' = sent + 1
            /\ history' = history \o Exchange(sent')
            /\ userInput' = << >>
            /\ chatLoading' = TRUE
            /\ streams' = streams \cup
                   {[msg |-> sent', session |-> chat,
                     language |-> chatDeps.language, chunks |-> 0]}
            /\ chatOp' = [name |-> "handleSendMessage", accepted |-> TRUE]
    /\ UNCHANGED <<chatDeps, isOnline, chat>>
    /\ ChatFrame

\* a chunk of the stream arrives: responseText += chunk.text, written to
\* the last element of the history
StreamChunk ==
    \E stream \in streams :
        /\ stream.chunks < MaxChunks
        /\ streams' = (streams \ {stream})
                         \cup {[stream EXCEPT !.chunks = @ + 1]}
        /\ history' = setLastText(history,
                          ChatText("response", stream.msg, stream.language))
        /\ chatOp' = [name |-> "chunk", msg |-> stream.msg]
        /\ UNCHANGED <<chatDeps, isOnline, chat, userInput, chatLoading, sent>>
        /\ ChatFrame

\* the stream is exhausted: finally setIsLoading(false)
StreamEnds ==
    \E stream \in streams :
        /\ streams' = streams \ {stream}
        /\ chatLoading' = FALSE
        /\ chatOp' = [name |-> "streamEnds", msg |-> stream.msg]
        /\ UNCHANGED <<chatDeps, isOnline, chat, history, userInput, sent>>
        /\ ChatFrame

\* sendMessageStream or the iteration throws: the catch block writes the
\* error message to the last element, finally setIsLoading(false)
StreamFails ==
    \E stream \in streams :
        /\ streams' = streams \ {stream}
        /\ history' = setLastText(history,
                          ChatText("error", stream.msg, stream.language))
        /\ chatLoading' = FALSE
        /\ chatOp' = [name |-> "streamFails", msg |-> stream.msg]
        /\ UNCHANGED <<chatDeps, isOnline, chat, userInput, sent>>
        /\ ChatFrame

\* BibleChat not mounted: the useState initial values
ChatIdle ==
    /\ chatDeps = [passage |-> 0, language |-> "ko"]
    /\ isOnline = TRUE
    /\ chat = 0
    /\ history = << >>
    /\ userInput = << >>
    /\ chatLoading = FALSE
    /\ streams = {}
    /\ sent = 0
    /\ chatOp = [name |-> "idle"]

\* BibleChat just mounted with the passage BibleReading has loaded, online
\* or offline: the effect has run once
ChatInit ==
    /\ chatDeps \in [passage : ChatPassages, language : {"ko"}]
    /\ isOnline \in BOOLEAN
    /\ chat = IF isOnline THEN 1 ELSE 0
    /\ history = IF isOnline THEN <<Greeting(chatDeps.language)>> ELSE << >>
    /\ userInput = << >>
    /\ chatLoading = FALSE
    /\ streams = {}
    /\ sent = 0
    /\ chatOp = [name |-> "mount"]

ChatNext ==
    \/ ChatPropsChange \/ ConnectivityEvent \/ HandleInputChange
    \/ HandleSendMessage \/ StreamChunk \/ StreamEnds \/ StreamFails

-----------------------------------------------------------------------------
(* MusicRecommendation.tsx, StoryKeywords.tsx (with PrayerTraining) and    *)
(* SermonOutline.tsx: the guard on connectivity                            *)

\* the components with a generate button; they differ in the service
\* function they call and in the name of their result
Generators == {"MusicRecommendation", "PrayerTraining", "SermonOutline"}

\* error: null, and the messages the handlers set
NoMessage == "null"

\* the frame of the steps of these components
NetFrame ==
    UNCHANGED <<planVars, listVars, localStorage, readVars, imgVars, svcVars,
                contentVars, tipsVars, chatVars>>

\* the window's 'online' / 'offline' event: the listeners of the generator
\* set its isOnline; StoryKeywords registers no listener
WindowEvent ==
    \E online \in BOOLEAN :
        /\ online # navigatorOnLine
        /\ navigatorOnLine' = online
        /\ generator' = [generator EXCEPT !.isOnline = online]
        /\ netOp' = [name |-> "windowEvent"]
        /\ UNCHANGED <<keywordsView, netRequests>>
        /\ NetFrame

\* handleRecommend / handleGenerate up to the await of the service call
HandleGenerate ==
    /\ ~generator.isLoading
    /\ netRequests < MaxNetRequests
    /\ IF ~generator.isOnline
       THEN /\ generator' = [generator EXCEPT !.error = "offlineError"]
            /\ UNCHANGED netRequests
       ELSE /\ generator' = [generator EXCEPT !.isLoading = TRUE,
                                              !.error = NoMessage,
                                              !.result = "empty"]
            /\ netRequests' = netRequests + 1
    /\ netOp' = [name |-> "handleGenerate"]
    /\ UNCHANGED <<navigatorOnLine, keywordsView>>
    /\ NetFrame

\* the service call of the generator returns a result, returns nothing
\* usable or rejects
GenerateReturns ==
    \E outcome \in {"result", "apiError"} :
        /\ generator.isLoading
        /\ generator' =
              [generator EXCEPT !.isLoading = FALSE,
                                !.error = IF outcome = "result"
                                          THEN @ ELSE outcome,
                                !.result = IF outcome = "result"
                                           THEN "generated" ELSE @]
        /\ netOp' = [name |-> "generateReturns"]
        /\ UNCHANGED <<navigatorOnLine, keywordsView, netRequests>>
        /\ NetFrame

\* StoryKeywords as useState leaves it at the mount: isOnline is read from
\* navigator.onLine once; `pending` counts its requests not yet returned
KeywordsMounted(online) ==
    [isOnline |-> online, isLoading |-> TRUE, error |-> NoMessage,
     keywords |-> "null", pending |-> 0]

\* fetchKeywords, run by the effect at the mount and after a change of
\* passage or language, up to its return or its await; `mount` is whether
\* the component is mounted anew, `cached` whether the cache has the item
FetchKeywords ==
    \E mount \in BOOLEAN, cached \in BOOLEAN :
        LET view == IF mount THEN KeywordsMounted(navigatorOnLine)
                    ELSE keywordsView
        IN  /\ netRequests < MaxNetRequests
            /\ IF ~view.isOnline
               THEN /\ keywordsView' = [view EXCEPT !.error = "offlineError",
                                                    !.isLoading = FALSE]
                    /\ UNCHANGED netRequests
               ELSE IF cached
               THEN /\ keywordsView' = [view EXCEPT !.keywords = "cached",
                                                    !.isLoading = FALSE]
                    /\ UNCHANGED netRequests
               ELSE /\ keywordsView' = [view EXCEPT !.isLoading = TRUE,
                                                    !.error = NoMessage,
                                                    !.pending = @ + 1]
                    /\ netRequests' = netRequests + 1
            /\ netOp' = [name |-> "fetchKeywords"]
            /\ UNCHANGED <<navigatorOnLine, generator>>
            /\ NetFrame

\* generateStoryKeywords returns keywords, or returns null or rejects
KeywordsReturn ==
    \E outcome \in {"generated", "keywordsApiError"} :
        /\ keywordsView.pending > 0
        /\ keywordsView' =
              [keywordsView EXCEPT !.isLoading = FALSE,
                                   !.pending = @ - 1,
                                   !.error = IF outcome = "generated"
                                             THEN @ ELSE outcome,
                                   !.keywords = IF outcome = "generated"
                                                THEN outcome ELSE @]
        /\ netOp' = [name |-> "keywordsReturn"]
        /\ UNCHANGED <<navigatorOnLine, generator, netRequests>>
        /\ NetFrame

\* the components not mounted: the useState initial values, online
NetIdle ==
    /\ navigatorOnLine = TRUE
    /\ generator = [component |-> "MusicRecommendation", isOnline |-> TRUE,
                    isLoading |-> FALSE, error |-> NoMessage,
                    result |-> "empty"]
    /\ keywordsView = KeywordsMounted(TRUE)
    /\ netRequests = 0
    /\ netOp = [name |-> "idle"]

\* one of the generators and StoryKeywords just mounted, online or offline;
\* the effect of StoryKeywords has not run yet
NetInit ==
    /\ navigatorOnLine \in BOOLEAN
    /\ generator \in [component : Generators, isOnline : {navigatorOnLine},
                       isLoading : {FALSE}, error : {NoMessage},
                       result : {"empty"}]
    /\ keywordsView = KeywordsMounted(navigatorOnLine)
    /\ netRequests = 0
    /\ netOp = [name |-> "mount"]

NetNext ==
    \/ WindowEvent \/ HandleGenerate \/ GenerateReturns
    \/ FetchKeywords \/ KeywordsReturn

LaterIdle == TipsIdle /\ ChatIdle /\ NetIdle

\* every part as constructed, nothing called yet
MoreIdle == ServiceIdle /\ ContentIdle /\ LaterIdle

-----------------------------------------------------------------------------
(* Specifications *)

\* each specification starts one part; the other parts stay as constructed
InitPlan == PlanInit /\ ListIdle /\ StorageInit /\ ReadIdle /\ ImageIdle /\ MoreIdle
SpecPlan == InitPlan /\ [][PlanNext]_vars

InitList == ListInit /\ PlanIdle /\ ReadIdle /\ ImageIdle /\ MoreIdle
SpecList == InitList /\ [][ListNext]_vars

InitArchive == ArchiveInit /\ PlanIdle /\ ListIdle /\ ImageIdle /\ MoreIdle
SpecArchive == InitArchive /\ [][ArchiveNext]_vars

InitStatus == StatusInit /\ PlanIdle /\ ListIdle /\ ImageIdle /\ MoreIdle
SpecStatus == InitStatus /\ [][StatusNext]_vars

SpecReading == InitStatus /\ [][ReadingNext]_vars

InitImage == ImageInit /\ PlanIdle /\ ListIdle /\ StorageInit /\ ReadIdle /\ MoreIdle
SpecImage == InitImage /\ [][ImageNext]_vars

\* every request in flight is answered and every timer fires
ImageFairness ==
    /\ WF_vars(\E response \in ImageResponses : ImageResponse(response))
    /\ WF_vars(\E response \in TextResponses : TextResponse(response))
    /\ WF_vars(DelayElapsed)

SpecImageFair == InitImage /\ [][ImageNext]_vars /\ ImageFairness

InitService ==
    /\ ServiceIdle /\ ContentIdle /\ LaterIdle
    /\ ImageInit /\ PlanIdle /\ ListIdle /\ StorageInit /\ ReadIdle
SpecService == InitService /\ [][ServiceNext]_vars

InitContent ==
    /\ ContentInit /\ ServiceIdle /\ LaterIdle
    /\ ListIdle /\ StorageInit /\ ReadIdle /\ ImageIdle
SpecContent == InitContent /\ [][ContentNext]_vars

InitCache ==
    /\ CacheInit /\ ServiceIdle /\ LaterIdle
    /\ ListIdle /\ StorageInit /\ ReadIdle /\ ImageIdle
SpecCache == InitCache /\ [][CacheNext]_vars

InitTips ==
    /\ TipsIdle /\ ChatIdle /\ NetIdle /\ ServiceIdle /\ ContentIdle
    /\ ImageInit /\ PlanIdle /\ ListIdle /\ StorageInit /\ ReadIdle
SpecTips == InitTips /\ [][TipsNext]_vars

InitChat ==
    /\ ChatInit /\ TipsIdle /\ NetIdle /\ ServiceIdle /\ ContentIdle
    /\ ImageIdle /\ PlanIdle /\ ListIdle /\ StorageInit /\ ReadIdle
SpecChat == InitChat /\ [][ChatNext]_vars

\* every stream delivers its chunks and ends or fails
ChatFairness == WF_vars(StreamEnds \/ StreamFails)

SpecChatFair == InitChat /\ [][ChatNext]_vars /\ ChatFairness

InitNet ==
    /\ NetInit /\ TipsIdle /\ ChatIdle /\ ServiceIdle /\ ContentIdle
    /\ ImageIdle /\ PlanIdle /\ ListIdle /\ StorageInit /\ ReadIdle
SpecNet == InitNet /\ [][NetNext]_vars

-----------------------------------------------------------------------------
(* Properties of the reading plan (SpecPlan) *)

\* the local calendar day of an instant, counted from 27 July 2024
LocalDay(z, u) == LocalHours(z, u) \div 24

\* the instant at which the local calendar day d starts
LocalMidnight(z, d, near) ==
    CHOOSE u \in (near - 26)..near : LocalHours(z, u) = 24 * d

\* the day number of the claim: whole 24h periods between the two local
\* midnights, 0 when negative
ElapsedDays(z, u) ==
    LET raw == (LocalMidnight(z, LocalDay(z, u), u) - LocalMidnight(z, 0, 13)) \div 24
    IN  IF raw < 0 THEN 0 ELSE raw

ItemIn(i, lang) == [book |-> PlanAt(i).book[lang], chapter |-> PlanAt(i).chapter]

\* the 0-based plan index of a displayed plan item
PlanIndexOf(item, lang) ==
    CHOOSE i \in 0..(totalChapters - 1) : ItemIn(i, lang) = item

\* C1: getDailyReading is a function of the local calendar day: with n the
\* number of whole days between local midnight of the date and local
\* midnight of 27 July 2024 (0 when negative) it returns the plan items
\* 2n mod 87 and 2n+1 mod 87 of the 87-chapter plan; all instants of one
\* local day give the same pair, dates before the start give the pair of
\* day 0, and the language changes only the book names.
C1_DailyReadingOfLocalDay ==
    LET n == ElapsedDays(tz, today)
    IN  /\ totalChapters = 87
        /\ dailyReading = <<ItemIn((2 * n) % 87, language), ItemIn((2 * n + 1) % 87, language)>>
        /\ \A u \in (today - 24)..(today + 24) :
              LocalDay(tz, u) = LocalDay(tz, today)
                  => getDailyReading(tz, u, language) = dailyReading
        /\ LocalDay(tz, today) < 0
              => dailyReading = <<ItemIn(0, language), ItemIn(1, language)>>
        /\ \A lang \in Languages :
              LET other == getDailyReading(tz, today, lang)
              IN  \A k \in 1..2 :
                     /\ other[k].chapter = dailyReading[k].chapter
                     /\ PlanIndexOf(other[k], lang) = PlanIndexOf(dailyReading[k], language)

\* C1 witness: a render late in the evening of a local day after the
\* daylight-saving transition of the zone, in the second pass over the plan
C1_Witness ==
    /\ tz.delta # 0
    /\ today >= tz.at
    /\ LocalHours(tz, today) % 24 = 23
    /\ ElapsedDays(tz, today) > 44

\* C2: two chapters a day in plan order: the two items of a day are cyclic
\* neighbours in the plan, and the first item of schedule day n+1 is the
\* cyclic successor of the second item of day n.
C2_PlanOrderNoGaps ==
    [][ /\ PlanIndexOf(dailyReading'[2], language')
             = (PlanIndexOf(dailyReading'[1], language') + 1) % totalChapters
        /\ ElapsedDays(tz', today') = ElapsedDays(tz, today) + 1
             => PlanIndexOf(dailyReading'[1], language')
                  = (PlanIndexOf(dailyReading[2], language) + 1) % totalChapters ]_vars

\* C2 witness: the day after the one that reads the last chapter of the
\* plan together with the first; it starts with the second chapter
C2_Witness ==
    /\ ElapsedDays(tz, today) = 44
    /\ dailyReading = <<ItemIn(1, language), ItemIn(2, language)>>

\* the chapters a schedule entry names
ChaptersOfEntry(e) ==
    IF e.reading.kind = "single"
    THEN <<[book |-> e.reading.book, chapter |-> e.reading.from]>>
    ELSE IF e.reading.kind = "range"
    THEN <<[book |-> e.reading.book, chapter |-> e.reading.from],
           [book |-> e.reading.book, chapter |-> e.reading.to]>>
    ELSE <<[book |-> e.reading.book, chapter |-> e.reading.from],
           [book |-> e.reading.book2, chapter |-> e.reading.to]>>

\* C3: on or after the start date, currentDay is the number of the schedule
\* entry whose chapters are the two chapters of today's reading, and
\* 1 <= currentDay <= totalDays = 44.
C3_CurrentDayIsScheduleEntry ==
    LocalDay(tz, today) >= 0 =>
        /\ totalDays = 44
        /\ currentDay \in 1..totalDays
        /\ getFullSchedule(language)[currentDay].day = currentDay
        /\ ChaptersOfEntry(getFullSchedule(language)[currentDay]) = dailyReading

-----------------------------------------------------------------------------
(* Properties of the saved lists (SpecList) *)

InList(e, list) == \E i \in 1..Len(list) : list[i] = e

\* C4: an entry that a save has written to the stored list of its key is
\* still in that stored list, unchanged, after every later operation
\* (mount, completion of the get request, handleSave, in any order).
C4_StoredEntriesNeverLost ==
    \A key \in DOMAIN written :
        \A e \in written[key] :
            key \in DOMAIN localStorage /\ InList(e, localStorage[key])

\* text that is empty or consists of white space only
AllWhitespace(text) == \A i \in 1..Len(text) : text[i] = " "

\* a draft whose fields are all empty or white space
BlankDraft(tab, draft) ==
    IF tab = "diary"
    THEN \A f \in {"repentance", "resolve", "dream"} : AllWhitespace(draft[f])
    ELSE AllWhitespace(draft)

StoredList(store, key) == IF key \in DOMAIN store THEN store[key] ELSE << >>

\* the step is a handleSave call
IsHandleSave == lastOp'.name = "handleSave"

\* handleSave left the list in memory, the stored list and the draft alone
SaveChangedNothing ==
    /\ savedEntries' = savedEntries
    /\ StoredList(localStorage', ListKey(activeTab)) = StoredList(localStorage, ListKey(activeTab))
    /\ currentEntry' = currentEntry

\* handleSave put one new entry, holding the draft, at the head of the list
\* in memory, stored that list and emptied the draft
SaveAddedEntry ==
    /\ Len(savedEntries') = Len(savedEntries) + 1
    /\ Tail(savedEntries') = savedEntries
    /\ Head(savedEntries').content = currentEntry
    /\ ~InList(Head(savedEntries'), savedEntries)
    /\ ListKey(activeTab) \in DOMAIN localStorage'
    /\ localStorage'[ListKey(activeTab)] = savedEntries'
    /\ currentEntry' = EmptyDraft(activeTab)

\* C5 as stated: handleSave adds an entry exactly when the draft is not
\* blank: a blank draft changes nothing; a draft with content puts one new
\* entry at the head, keeps the others in order, persists that list and
\* resets the draft.
C5_SaveAddsEntryIffContent ==
    [][ IsHandleSave =>
          IF BlankDraft(activeTab, currentEntry)
          THEN SaveChangedNothing
          ELSE SaveAddedEntry ]_vars

\* C5 amended: as above when the write of the list succeeds; when
\* localStorage.setItem throws, the list in memory and the stored list are
\* as before the save and the draft is emptied all the same.
C5_SaveAddsEntryIfStored ==
    [][ IsHandleSave =>
          IF BlankDraft(activeTab, currentEntry)
          THEN SaveChangedNothing
          ELSE IF lastOp'.stored
          THEN SaveAddedEntry
          ELSE /\ savedEntries' = savedEntries
               /\ StoredList(localStorage', ListKey(activeTab))
                     = StoredList(localStorage, ListKey(activeTab))
               /\ currentEntry' = EmptyDraft(activeTab) ]_vars

\* C5 witness: a save with content has just put a second entry in front of
\* an earlier one and stored both
C5_Witness ==
    /\ lastOp.name = "handleSave"
    /\ lastOp.saved /\ lastOp.stored
    /\ Len(savedEntries) = 2
    /\ savedEntries[1].id > savedEntries[2].id
    /\ localStorage[ListKey(activeTab)] = savedEntries

-----------------------------------------------------------------------------
(* Properties of the archive (SpecArchive) and of the status (SpecStatus) *)

\* C6: the stored archive is keyed by day: it maps every day to the data of
\* the last saveArchivedReading call that completed its write for that day,
\* also when calls for different days overlap.
C6_ArchiveKeepsEveryDay ==
    \A day \in DOMAIN lastArchived :
        holds(getRecord("archived-readings"), day, lastArchived[day])

\* a step in which handleStatusChange(day, status) has been called: from a
\* status button, or by handleCompleteReading after the archive was saved
StatusChangeCalled ==
    \/ readOp'.name = "handleStatusChange"
    \/ readOp'.name = "completeReadingResumed" /\ readOp'.called

\* C7: handleStatusChange(day, status) toggles that day only: the entry is
\* removed when it was status and becomes status otherwise, the entries of
\* the other days stay as they are, the result is what saveMeditationStatus
\* is given, and the record only ever holds 'good', 'ok' or 'bad'.
C7_StatusToggledForOneDay ==
    [][ /\ \A w \in Windows : \A d \in DOMAIN meditationStatus'[w] :
               meditationStatus'[w][d] \in {"good", "ok", "bad"}
        /\ StatusChangeCalled =>
              LET before == meditationStatus[readOp'.w]
                  after == meditationStatus'[readOp'.w]
                  day == readOp'.day
              IN  /\ IF day \in DOMAIN before /\ before[day] = readOp'.status
                     THEN day \notin DOMAIN after
                     ELSE day \in DOMAIN after /\ after[day] = readOp'.status
                  /\ \A d \in (DOMAIN before \cup DOMAIN after) \ {day} :
                        /\ d \in DOMAIN before /\ d \in DOMAIN after
                        /\ after[d] = before[d]
                  /\ readOp'.passed = after ]_vars

\* the same for the calls made from the status buttons alone
C7_ButtonTogglesOneDay ==
    [][ readOp'.name = "handleStatusChange" =>
              LET before == meditationStatus[readOp'.w]
                  after == meditationStatus'[readOp'.w]
                  day == readOp'.day
              IN  /\ IF day \in DOMAIN before /\ before[day] = readOp'.status
                     THEN day \notin DOMAIN after
                     ELSE day \in DOMAIN after /\ after[day] = readOp'.status
                  /\ \A d \in (DOMAIN before \cup DOMAIN after) \ {day} :
                        /\ d \in DOMAIN before /\ d \in DOMAIN after
                        /\ after[d] = before[d]
                  /\ readOp'.passed = after ]_vars

-----------------------------------------------------------------------------
(* Properties of generateContextImage (SpecImage) *)

IsRequest(i) == trace[i].kind = "request"

IsImageRequest(i) == IsRequest(i) /\ trace[i].model = "gemini-2.5-flash-image"

\* event i is the answer to an image request (an answer follows its request)
IsImageResponse(i) == trace[i].kind = "response" /\ IsImageRequest(i - 1)

\* event i: the stage has ended and imageUrl holds an image / holds none
EndedWithImage(i) == trace[i].kind = "stageEnd" /\ trace[i].imageUrl # Null

EndedWithout(i, stage) ==
    trace[i].kind = "stageEnd" /\ trace[i].stage = stage /\ trace[i].imageUrl = Null

\* the prompt of a stage: detailed, derived from the context, static
PromptOfStage(i) ==
    CASE trace[i].stage = 1 -> trace[i].prompt = firstAttemptPrompt(params)
      [] trace[i].stage = 2 ->
            \/ ~IsImageRequest(i) /\ trace[i].prompt = fallbackPromptGenerator(params)
            \/ /\ IsImageRequest(i)
               /\ trace[i].prompt[1] \in {"A symbolic oil painting of: ",
                                          "Sangjingjeogin yuhwa: "}
      [] trace[i].stage = 3 -> trace[i].prompt = staticFallbackPrompt(params)

\* C8: the stages run in the order detailed, context-derived, static: a
\* request of a stage is issued only after every earlier stage has ended
\* without an image, none is issued after a stage has ended with an image,
\* the call returns the data URI of the first stage that produced an image,
\* and it returns null only when all three stages have ended without one.
C8_StagesInOrder ==
    /\ \A i \in 1..Len(trace) : IsRequest(i) =>
          /\ PromptOfStage(i)
          /\ \A earlier \in 1..(trace[i].stage - 1) :
                \E j \in 1..(i - 1) : EndedWithout(j, earlier)
          /\ \A j \in 1..(i - 1) : ~EndedWithImage(j)
    /\ imgPc = "returned" =>
          LET ends == {j \in 1..Len(trace) : EndedWithImage(j)}
          IN  IF ends # {}
              THEN \E j \in ends :
                      /\ \A k \in ends : j <= k
                      /\ IsImageResponse(j - 1)
                      /\ trace[j - 1].response.type = "response"
                      /\ result = dataUri(trace[j - 1].response.inlineData)
                      /\ result = trace[j].imageUrl
              ELSE /\ result = Null
                   /\ \A stage \in 1..3 : \E j \in 1..Len(trace) : EndedWithout(j, stage)

\* C8 witness: the detailed prompt has used up its attempts, the prompt made
\* from the context has produced the image that the call returned
C8_Witness ==
    /\ imgPc = "returned"
    /\ result = dataUri(<<"R0lGO">>)
    /\ Len(console) = MAX_RETRIES
    /\ \E j \in 1..Len(trace) : EndedWithout(j, 1)
    /\ \E j \in 1..Len(trace) :
          EndedWithImage(j) /\ trace[j].stage = 2 /\ trace[j].imageUrl = result
    /\ \A i \in 1..Len(trace) : IsRequest(i) => trace[i].stage < 3

\* the error is the transient one: its text holds the xhr failure
TransientError(error) ==
    includes(JSONstringify(error), "Rpc failed due to xhr error")

\* the image requests of event i's stage issued before event i
RequestsBefore(i) ==
    {j \in 1..(i - 1) : IsImageRequest(j) /\ trace[j].stage = trace[i].stage}

\* C9: an image request that fails with the transient error is retried with
\* the same prompt, up to three retries, after attempt x 1000 ms (1000 ms
\* before the first retry, 2000 ms before the second, ...), and the prompt
\* ends without an image once the last retry has failed as well.
C9_TransientRetriedThreeTimes ==
    \A i \in 1..Len(trace) :
        /\ IsImageResponse(i)
        /\ trace[i].response.type = "throws"
        /\ TransientError(trace[i].response.error)
        => LET retries == Cardinality(RequestsBefore(i)) - 1
           IN  /\ i < Len(trace)
               /\ IF retries < 3
                  THEN /\ trace[i + 1].kind = "timer"
                       /\ trace[i + 1].ms = (retries + 1) * 1000
                       /\ i + 2 <= Len(trace) =>
                             /\ IsImageRequest(i + 2)
                             /\ trace[i + 2].stage = trace[i].stage
                             /\ trace[i + 2].prompt = trace[i - 1].prompt
                  ELSE EndedWithout(i + 1, trace[i].stage)

\* the answer is one that is not retried: blocked, without image data, or an
\* error that is not the transient one
NotRetried(response) ==
    IF response.type = "throws"
    THEN ~TransientError(response.error)
    ELSE response.blockReason # "" \/ response.inlineData = Null

\* C10: after a blocked response, a response without image data or an error
\* that is not the transient one, no further request is issued for the
\* prompt (the only earlier requests for it are those that failed with the
\* transient error) and the chain goes on to the next stage: the stage ends
\* without an image and the next stage's request follows, or the call
\* returns null after the last stage.
C10_OnlyTransientRetried ==
    \A i \in 1..Len(trace) :
        IsImageResponse(i) /\ NotRetried(trace[i].response) =>
           /\ i < Len(trace)
           /\ EndedWithout(i + 1, trace[i].stage)
           /\ \A j \in (i + 1)..Len(trace) :
                 IsRequest(j) => trace[j].stage # trace[i].stage
           /\ \A j \in RequestsBefore(i) \ {i - 1} :
                 /\ trace[j + 1].response.type = "throws"
                 /\ TransientError(trace[j + 1].response.error)
           /\ IF trace[i].stage < 3
              THEN /\ i + 2 <= Len(trace)
                   /\ IsRequest(i + 2)
                   /\ trace[i + 2].stage = trace[i].stage + 1
              ELSE /\ i + 1 = Len(trace)
                   /\ imgPc = "returned"
                   /\ result = Null

\* C10 witness: the detailed prompt was blocked at its first request, the
\* prompt made from the context got a response without image data and the
\* static prompt an error that is not the transient one: three image
\* requests and null
C10_Witness ==
    /\ imgPc = "returned"
    /\ result = Null
    /\ Cardinality({i \in 1..Len(trace) : IsImageRequest(i)}) = 3
    /\ \E i \in 1..Len(trace) :
          /\ IsImageResponse(i) /\ trace[i].stage = 1
          /\ trace[i].response.type = "response"
          /\ trace[i].response.blockReason = "SAFETY"
    /\ \E i \in 1..Len(trace) :
          /\ IsImageResponse(i) /\ trace[i].stage = 2
          /\ trace[i].response.type = "response"
          /\ trace[i].response.inlineData = Null
    /\ \E i \in 1..Len(trace) :
          /\ IsImageResponse(i) /\ trace[i].stage = 3
          /\ trace[i].response.type = "throws"
          /\ trace[i].response.error.class = "Error"

-----------------------------------------------------------------------------
(* generateContextImage: termination and number of requests (SpecImageFair) *)

ImageRequests == {i \in 1..Len(trace) : IsImageRequest(i)}

TextRequests == {i \in 1..Len(trace) : IsRequest(i) /\ ~IsImageRequest(i)}

\* a call with an AI client has not rejected, has issued at most 9 image
\* requests and 1 text request, and has returned null unless an answer
\* carried the image it returned
WithinBudget ==
    /\ Cardinality(ImageRequests) <= 9
    /\ Cardinality(TextRequests) <= 1
    /\ apiKey # Null => imgPc # "rejected"
    /\ imgPc = "returned" =>
          \/ result = Null
          \/ \E i \in 1..Len(trace) :
                /\ IsImageResponse(i)
                /\ trace[i].response.type = "response"
                /\ trace[i].response.blockReason = ""
                /\ trace[i].response.inlineData # Null
                /\ result = dataUri(trace[i].response.inlineData)

\* C11: with an AI client generateContextImage never rejects and always
\* completes, whatever the answers to its requests are; failures end in the
\* null result, and one call issues at most 9 image requests and at most 1
\* prompt-generation request.
C11_CompletesWithinBudget ==
    /\ []WithinBudget
    /\ (imgPc \in {"image", "delay", "text"}) ~> (imgPc = "returned")

\* C11 witness: all three prompts have used up their three attempts on the
\* transient error: 9 image requests, 1 text request, null
C11_Witness ==
    /\ imgPc = "returned"
    /\ result = Null
    /\ Cardinality(ImageRequests) = 9
    /\ Cardinality(TextRequests) = 1
    /\ Len(console) = 9

-----------------------------------------------------------------------------
(* The text functions of the service (SpecService) *)

\* the call has failed: no API key, an exception of the request, or, for the
\* functions that parse JSON, a response without usable text
ServiceFailed ==
    \/ falsy(apiKey)
    \/ svcResponse.type = "throws"
    \/ /\ svcResponse.type = "response"
       /\ svcFn \in JsonFunctions
       /\ ~svcResponse.hasText \/ falsy(trim(svcResponse.text))
             \/ ~parses(svcResponse.text)

\* C12: every failure of the six text functions, a missing API key
\* included, ends in the function's fallback value and never in a rejected
\* promise, and a finished call has issued exactly one request.
C12_FailuresBecomeFallback ==
    /\ svcPc # "rejected"
    /\ svcPc = "resolved" =>
          /\ svcRequests = 1
          /\ ServiceFailed => svcValue = fallbackOf(svcFn, svcLanguage)

-----------------------------------------------------------------------------
(* The reading reference and the requested passage (SpecPlan) *)

\* the chapters that "book chapter1-chapter2" names
ChaptersNamed(ref) ==
    {[book |-> ref.book, chapter |-> c] : c \in ref.chapter1..ref.chapter2}

\* C16: the passage requested from the model and the reading reference that
\* is shown and archived cover exactly the two plan chapters of the daily
\* reading, each under its own book, also when the chapters are of two books.
C16_ReferenceCoversBothChapters ==
    LET chapters == {dailyReading[1], dailyReading[2]}
    IN  /\ ChaptersNamed(readingReference(dailyReading)) = chapters
        /\ ChaptersNamed(comprehensiveReadingRequest(dailyReading, language)) = chapters

-----------------------------------------------------------------------------
(* handleCompleteReading and the meditation status (SpecReading) *)

\* a step in which handleCompleteReading has run to its end after a
\* successful save of the archive
CompleteReadingSucceeded == readOp'.name = "completeReadingResumed"

\* C17: when handleCompleteReading has succeeded, the archive holds the
\* snapshot under currentDay, in memory and in storage, and the status of
\* currentDay is 'good', also when the user has toggled statuses while the
\* save was in flight.
C17_CompletedDayIsGood ==
    [][ CompleteReadingSucceeded =>
           LET w == readOp'.w
               day == readOp'.day
           IN  /\ day \in DOMAIN archivedReadings'[w]
               /\ archivedReadings'[w][day].day = day
               /\ holds(getRecord("archived-readings"), day, archivedReadings'[w][day])
               /\ holds(meditationStatus'[w], day, "good") ]_vars

\* C18: handleCompleteReading changes the status of the current day only:
\* the status of every other day, as the user left it while the save was in
\* flight, is the same after the automatic marking, in memory and (when the
\* marking is written) in the stored record.
C18_OtherDaysKeepStatus ==
    [][ CompleteReadingSucceeded =>
           LET w == readOp'.w
               before == meditationStatus[w]
               after == meditationStatus'[w]
               stored == localStorage'["meditation-status"]
           IN  \A d \in StatusDays \ {readOp'.day} :
                  /\ d \in DOMAIN before <=> d \in DOMAIN after
                  /\ d \in DOMAIN before => after[d] = before[d]
                  /\ localStorage' # localStorage =>
                        /\ d \in DOMAIN before <=> d \in DOMAIN stored
                        /\ d \in DOMAIN before => stored[d] = before[d] ]_vars

\* no read or write of the status is pending in window 1
StatusQuiet == ~initialData[1].pending /\ completing[1].pc \in {"idle", "timer"}

\* C19: once every pending read and write of the status has completed, the
\* status in memory equals the stored record, for every interleaving of
\* the initial fetch with the user's toggles.
C19_MemoryEqualsStored ==
    StatusQuiet => meditationStatus[1] = getRecord("meditation-status")

-----------------------------------------------------------------------------
(* fetchContent: a failed text generation (SpecContent) *)

\* the step at which a pending generateComprehensiveReadingContent rejects
TextFailed == contentOp'.name = "textRejected" /\ textFetches' # textFetches

\* the text fetchContent's catch block searches: the message of an Error,
\* the JSON text of any other value
FailureText ==
    IF contentOp'.err.class = "Error"
    THEN contentOp'.err.message
    ELSE <<"{\"message\":\"">> \o contentOp'.err.message \o <<"\"}">>

\* C13: when generateComprehensiveReadingContent rejects in fetchContent, the
\* error shown is the quota message if the failure text contains "429" or
\* "RESOURCE_EXHAUSTED" and the generic message otherwise, isLoading and
\* isImageLoading are both false, no image request (and no further text
\* request) is issued, and nothing is written to the cache.
C13_FailureEndsInErrorState ==
    [][TextFailed =>
          /\ readingError'.key =
                 IF \E i \in 1..Len(FailureText) :
                        FailureText[i] \in {"429", "RESOURCE_EXHAUSTED"}
                 THEN "apiQuotaExceeded"
                 ELSE "contentError"
          /\ isLoading' = FALSE
          /\ isImageLoading' = FALSE
          /\ imageFetches' = imageFetches
          /\ textFetches' \subseteq textFetches
          /\ readingCache' = readingCache]_vars

\* a rejection with a plain object that names RESOURCE_EXHAUSTED has put the
\* quota message on the screen
C13_Witness ==
    /\ contentOp.name = "textRejected"
    /\ contentOp.err.class = "Object"
    /\ readingError.key = "apiQuotaExceeded"
    /\ ~isLoading /\ ~isImageLoading

-----------------------------------------------------------------------------
(* fetchContent: the cache of the generated texts (SpecContent) *)

\* every item of the cache was generated in the language of its key
CacheLanguagesAgree ==
    \A key \in DOMAIN readingCache :
        readingCache[key].request.language = key.language

\* the step whose last run of fetchContent found its item in the cache
CacheHit == lastFetch' # lastFetch /\ lastFetch'.hit

\* the step at which a resolved fetch has written its item
CacheWritten == contentOp'.name = "textResolved" /\ readingCache' # readingCache

\* the fetch that resolved at this step
ResolvedFetch == CHOOSE f \in textFetches : f.seq = contentOp'.seq

\* C14: the cache is keyed by date and language. A run of fetchContent that
\* finds its item issues no text request and shows the item; a resolved fetch
\* stores its result under the date and language that were current when it
\* started, so that no item is stored under one language with content that
\* was generated for the other, also when the language is switched while the
\* fetch is in flight.
C14_CacheKeyedByDateAndLanguage ==
    /\ []CacheLanguagesAgree
    /\ [][/\ CacheHit =>
              /\ lastFetch'.key = [date |-> toISODate(today'),
                                   language |-> language']
              /\ textFetches' \subseteq textFetches
              /\ shown' = readingCache'[lastFetch'.key]
          /\ CacheWritten =>
              LET key == [date |-> ResolvedFetch.closure.storageKeyDate,
                          language |-> ResolvedFetch.closure.language]
              IN  /\ DOMAIN readingCache' = DOMAIN readingCache \cup {key}
                  /\ readingCache'[key].request.language = key.language
                  /\ \A k \in DOMAIN readingCache :
                         k # key => readingCache'[k] = readingCache[k]]_vars

\* both languages have an item, the Korean one written by a fetch that
\* resolved after the switch to English, and the last run was a cache hit
C14_Witness ==
    /\ \E k1, k2 \in DOMAIN readingCache :
           k1.language = "ko" /\ k2.language = "en"
    /\ lastFetch.hit
    /\ shown = readingCache[lastFetch.key]

-----------------------------------------------------------------------------
(* fetchContent: the cache and the reading of the day (SpecCache) *)

\* C15: the content a run of fetchContent serves from the cache was generated
\* for the reading that is displayed, at every time of day and in every zone,
\* although the key is made of the UTC date and the reading of the local one.
C15_CachedContentIsOfDisplayedReading ==
    [][CacheHit =>
          shown'.request = comprehensiveReadingRequest(dailyReading', language')
      ]_vars

-----------------------------------------------------------------------------
(* fetchContent: fetches that overlap (SpecContent) *)

\* no text and no image request of the page is in flight
AllRequestsComplete == textFetches = {} /\ imageFetches = {}

\* the texts and the image on the screen are of the current language
ShownInCurrentLanguage ==
    /\ shown # NoData => shown.request.language = language
    /\ contextImageUrl # NoImage => contextImageUrl.language = language

\* C20: the completion of a fetch that started earlier never overwrites what
\* a fetch that started later has written; after a language switch, once all
\* requests are complete, the passage, guide, context, intention and image
\* on the screen are those of the current language; and isImageLoading is
\* false only when no image request is in flight.
C20_LaterFetchWins ==
    /\ [][shownBy' >= shownBy]_vars
    /\ [](AllRequestsComplete => ShownInCurrentLanguage)
    /\ [](~isImageLoading => imageFetches = {})

-----------------------------------------------------------------------------
(* fetchContent: the error left by an earlier fetch (SpecContent) *)

\* the step at whose end fetchContent has loaded a passage: its last run
\* found the item in the cache, or a fetch resolved and no run followed
PassageLoaded ==
    \/ CacheHit
    \/ /\ contentOp'.name = "textResolved"
       /\ textFetches' # textFetches
       /\ fetchCount' = fetchCount

\* C21: whenever fetchContent finishes by loading a passage, from the cache
\* or from a successful generation, error is null, so that the passage is on
\* the screen and not the message of an earlier failed fetch.
C21_LoadedPassageClearsError ==
    [][PassageLoaded => readingError' = NoError]_vars

-----------------------------------------------------------------------------
(* handleSave: a save that fails (SpecList) *)

\* the step of a handleSave whose save...Entries / save...Plans rejected
SaveFailed == IsHandleSave /\ lastOp'.saved /\ ~lastOp'.stored

\* C22: when persisting the new list fails in handleSave, the list in memory
\* is again the list as it was immediately before the save and the stored
\* list is unchanged, so that a memory that agreed with the storage before
\* the save agrees with it again after it.
C22_FailedSaveReverts ==
    [][SaveFailed =>
          /\ savedEntries' = savedEntries
          /\ StoredList(localStorage', ListKey(activeTab))
                = StoredList(localStorage, ListKey(activeTab))
          /\ savedEntries = StoredList(localStorage, ListKey(activeTab))
                => savedEntries' = StoredList(localStorage', ListKey(activeTab))
      ]_vars

\* a save has failed on top of a list that an earlier save had stored:
\* memory and storage both hold that one entry
C22_Witness ==
    /\ lastOp.name = "handleSave" /\ lastOp.saved /\ ~lastOp.stored
    /\ Len(savedEntries) = 1
    /\ savedEntries = StoredList(localStorage, ListKey(activeTab))

-----------------------------------------------------------------------------
(* fetchTips: what the cache of the tips holds (SpecTips) *)

\* the step at which the generation request of fetchTips has failed
TipsGenerationFailed ==
    /\ tipsCall.pending /\ ~tipsCall'.pending
    /\ tipsOp'.name = "response" /\ tipsOp'.failed

\* the step of a run of fetchTips that served the tips from the cache
TipsServedFromCache == tipsCalls' # tipsCalls /\ tipsOp'.name = "cached"

\* C23: only tips that were generated are written to the cache of the tips:
\* after a generation that failed the cache has no item for its date and
\* language, and a run of fetchTips never serves a stored failure message
\* instead of issuing a new request.
C23_OnlyGeneratedTipsCached ==
    [][/\ TipsGenerationFailed => tipsOp'.key \notin DOMAIN tipsCache'
       /\ TipsServedFromCache =>
              tips' # fallbackOf("generateEvangelismTips", tipsOp'.key.language)
      ]_vars

-----------------------------------------------------------------------------
(* BibleChat: where a stream writes (SpecChat) *)

\* the message holds what was put there for it: the greeting is the
\* greeting, and a response or an error text is in the placeholder of the
\* exchange whose stream delivered it
InOwnPlace(message) ==
    IF message.slot = 0
    THEN message.text.kind = "greeting"
    ELSE message.text.kind \in {"response", "error"}
            => message.text.msg = message.slot

\* C24: a streamed response or its error text is written only into the
\* model placeholder appended for its own user message, never into the
\* greeting or the placeholder of another exchange, also when the session is
\* initialised again while the stream is delivering.
C24_StreamWritesOwnPlaceholder ==
    \A i \in 1..Len(history) : InOwnPlace(history[i])

-----------------------------------------------------------------------------
(* BibleChat: messages and their streams (SpecChatFair) *)

\* the step of a handleSendMessage that accepted the message
SendAccepted == chatOp'.name = "handleSendMessage" /\ sent' # sent

\* the step at which the stream of a message failed
StreamFailed == chatOp'.name = "streamFails" /\ streams' # streams

\* no two streams of one chat session are in flight
OneStreamPerSession ==
    \A s1, s2 \in streams : s1.session = s2.session => s1 = s2

\* C25: every accepted message eventually ends with isLoading false, whether
\* its stream completes or fails; when it fails, the placeholder of that
\* message holds the error message; a send is accepted only with an input
\* that is not blank, a chat session and isLoading false, so that one chat
\* session never has two streams in flight.
C25_OneStreamAndItEnds ==
    /\ chatLoading ~> ~chatLoading
    /\ [][SendAccepted =>
             ~falsy(trim(userInput)) /\ chat # 0 /\ ~chatLoading]_vars
    /\ [][StreamFailed =>
             \A i \in 1..Len(history') :
                 history'[i].role = "model" /\ history'[i].slot = chatOp'.msg
                     => history'[i].text =
                           ChatText("error", chatOp'.msg,
                                    history'[i].text.language)]_vars
    /\ []OneStreamPerSession

-----------------------------------------------------------------------------
(* The guard on connectivity (SpecNet) *)

\* the step of a handleRecommend / handleGenerate called while offline
OfflineGenerate == netOp'.name = "handleGenerate" /\ ~generator.isOnline

\* C26: in the components that guard on connectivity no generation request
\* is started while the most recent connectivity event was 'offline'; after
\* a later 'online' event the components are usable again; and a
\* handleGenerate / handleRecommend called offline sets the offline error
\* and leaves the loading flag and the result as they are.
C26_NoRequestWhileOffline ==
    /\ [][netRequests' # netRequests => navigatorOnLine]_vars
    /\ [](navigatorOnLine => generator.isOnline /\ keywordsView.isOnline)
    /\ [][OfflineGenerate =>
             /\ generator'.error = "offlineError"
             /\ generator'.isLoading = generator.isLoading
             /\ generator'.result = generator.result]_vars

====
